---- MODULE Spec2Model ----
(***************************************************************************)
(* DMARC report pipeline: scheduler (single-flight runPipeline), message   *)
(* intake over IMAP (fetchAndProcessEmails / processEmail), the report     *)
(* parser (parseDmarcXml), the assessment stage (analyzeUnprocessedReports *)
(* / analyzeReport) and the notification stage (sendThreatNotification),   *)
(* over the SQLite tables of lib/db/schema.ts.                             *)
(*                                                                         *)
(* One Node.js process runs the scheduler; its handlers are the actions    *)
(* below, cut at the awaits and at the IMAP callbacks.  The script         *)
(* scripts/test-notification.ts is a second operating-system process on    *)
(* the same database (specification SpecScript).                           *)
(*                                                                         *)
(* Assumption of the whole model: the store executes every statement that  *)
(* violates no constraint of the schema (no disk or lock failures).        *)
(***************************************************************************)
EXTENDS Naturals, Sequences, FiniteSets, Bags, TLC

\* ------------------------------------------------------------------------
\* Bounds
\* ------------------------------------------------------------------------

\* Pipeline executions that may start in one behaviour.
MaxRuns == 2

\* Requests to the send API after which the notification test script is not
\* run again.
MaxSends == 2

NULL == "null"

\* ------------------------------------------------------------------------
\* Documents, attachments, messages (the inputs)
\* ------------------------------------------------------------------------

\* A detail block of a document: has it a <row>, has it <identifiers>.
Block(row, ident, ip) == [row |-> row, identifiers |-> ident, source_ip |-> ip]

\* A decoded document: feedback present or not, the external report id, the
\* detail blocks in document order.
Doc(rid, blocks) == [feedback |-> TRUE, report_id |-> rid, blocks |-> blocks]
NoFeedback == [feedback |-> FALSE, report_id |-> "", blocks |-> <<>>]

DocX == Doc("X", <<Block(TRUE, TRUE, 1), Block(TRUE, TRUE, 2)>>)
DocY == Doc("Y", <<Block(TRUE, TRUE, 3), Block(FALSE, TRUE, 4), Block(TRUE, TRUE, 5)>>)
\* a block that has a row but no identifiers
DocZ == Doc("Z", <<Block(TRUE, TRUE, 6), Block(TRUE, FALSE, 7), Block(TRUE, TRUE, 8)>>)
\* one report with three detail records
DocT == Doc("T", <<Block(TRUE, TRUE, 10), Block(TRUE, TRUE, 11), Block(TRUE, TRUE, 12)>>)
\* the first block has a row but no identifiers
DocW == Doc("W", <<Block(TRUE, FALSE, 7), Block(TRUE, TRUE, 8)>>)
\* every block lacks its row: a report without detail records
DocE == Doc("E", <<Block(FALSE, TRUE, 9)>>)

\* An attachment: filename suffix, whether the container is corrupt, and the
\* entries it holds (one for .gz and .xml; the archive entries for .zip).
Entry(isXml, doc) == [xml |-> isXml, doc |-> doc]
Att(suffix, corrupt, entries) == [suffix |-> suffix, corrupt |-> corrupt, entries |-> entries]
Gz(doc) == Att("gz", FALSE, <<Entry(TRUE, doc)>>)
GzCorrupt == Att("gz", TRUE, <<Entry(TRUE, NoFeedback)>>)
Xml(doc) == Att("xml", FALSE, <<Entry(TRUE, doc)>>)
Zip(entries) == Att("zip", FALSE, entries)
Other == Att("other", FALSE, <<Entry(TRUE, DocX)>>)

\* Environment configurations (process.env): which credential groups are set.
\* cron: CRON_SCHEDULE is unset or a valid expression.
Env(imap, anthropic, postal) ==
  [imap |-> imap, anthropic |-> anthropic, postal |-> postal, cron |-> TRUE]
EnvAll == Env(TRUE, TRUE, TRUE)
EnvBadCron == [EnvAll EXCEPT !.cron = FALSE]
\* The mail server of a scenario is "failing" (it may refuse any command,
\* break the stream of a message body, report a connection error or close
\* the connection at any time) unless the scenario says it is "steady" (every
\* command succeeds and the connection lasts until the client ends it).
Scenario(mail, env) == [mail |-> mail, env |-> env, server |-> "failing"]
Steady(sc) == [sc EXCEPT !.server = "steady"]

\* The initial (mailbox, environment, server) triples explored.  A mailbox is
\* a sequence of unseen messages, each message the sequence of its attachments.

\* One message with one report, every credential group configured, on a
\* failing server.
OneReport == Scenario(<< <<Gz(DocX)>> >>, EnvAll)

\* One message without attachments, on a failing server.
NoAttachment == Scenario(<< <<>> >>, EnvAll)

\* One report on a failing server, with the mailbox credentials set and
\* unset; on a steady server: every other credential group missing in turn;
\* a message whose only attachment is an archive without report content
\* beside a message without attachments; a document whose second block lacks
\* its identifiers.
Scenarios ==
  { OneReport, Scenario(<< <<Gz(DocX)>> >>, Env(FALSE, TRUE, TRUE)) }
  \cup { Steady(Scenario(<< <<Gz(DocX)>> >>, e)) :
           e \in {Env(TRUE, FALSE, TRUE), Env(TRUE, TRUE, FALSE), EnvBadCron} }
  \cup { Steady(Scenario(<< <<Zip(<<Entry(FALSE, NoFeedback)>>)>>, <<>> >>, EnvAll)),
         Steady(Scenario(<< <<Xml(DocZ)>> >>, EnvAll)) }

\* The same document in two messages of one batch.
ScenariosBatch == { Steady(Scenario(<< <<Gz(DocX)>>, <<Xml(DocX)>> >>, EnvAll)) }

\* One report on a failing server; on a steady server: the batch above,
\* several documents in one message, with and without the key of the
\* reasoning service, and every kind of attachment.
ScenariosDocs ==
  ScenariosBatch \cup
  { OneReport,
    Steady(Scenario(<< <<Gz(DocY), Xml(DocE), Xml(DocX)>> >>, EnvAll)),
    Steady(Scenario(<< <<Gz(DocY), Xml(DocE), Xml(DocX)>> >>, Env(TRUE, FALSE, TRUE))),
    Steady(Scenario(<< <<Other, GzCorrupt, Zip(<<Entry(FALSE, DocE), Entry(TRUE, DocY)>>),
                         Zip(<<>>)>> >>, EnvAll)) }

\* Batches with failing items: two messages, one with a corrupt attachment
\* and a document the parser throws on ahead of a good one, the other
\* without attachments, on a failing server; and one message carrying two
\* reports with records.
ScenariosItems ==
  { Scenario(<< <<GzCorrupt, Xml(DocW), Xml(DocE)>>, <<>> >>, EnvAll),
    Steady(Scenario(<< <<Xml(DocX), Xml(DocY)>> >>, EnvAll)) }

\* One message whose .gz attachment holds one report with three records.
ScenariosE2E == { Scenario(<< <<Gz(DocT)>> >>, EnvAll) }

\* Every kind of attachment in one message (the key of the reasoning service
\* unset), next to the one-report mailbox.
ScenariosExtract ==
  ScenariosE2E \cup
  { Steady(Scenario(<< <<Other, Zip(<<>>), Gz(DocX),
                         Zip(<<Entry(FALSE, DocE), Entry(TRUE, DocY), Entry(TRUE, DocT)>>),
                         Zip(<<Entry(FALSE, DocZ), Entry(FALSE, DocT)>>),
                         GzCorrupt, Xml(DocW)>> >>, Env(TRUE, FALSE, TRUE))) }

\* One message with a report that has records and a report that has none.
ScenariosLive == { Scenario(<< <<Gz(DocX), Xml(DocE)>> >>, EnvAll) }

\* One report, with and without the key of the reasoning service.
ScenariosAnalyzer ==
  { NoAttachment }
  \cup { Steady(Scenario(<< <<Gz(DocX)>> >>, e)) : e \in {EnvAll, Env(TRUE, FALSE, TRUE)} }

\* One report, with and without the send-API configuration.
ScenariosScript ==
  { NoAttachment }
  \cup { Steady(Scenario(<< <<Gz(DocX)>> >>, e)) : e \in {EnvAll, Env(TRUE, TRUE, FALSE)} }

Levels == {"LOW", "MEDIUM", "HIGH", "CRITICAL"}

\* ------------------------------------------------------------------------
\* Store operations (lib/db/client.ts) as operators on the tables
\* ------------------------------------------------------------------------

\* Tables are sequences in rowid order; AUTOINCREMENT ids are positions.
SeqToSet(s) == {s[i] : i \in 1..Len(s)}

GetDmarcReportByReportId(reps, rid) == {x \in SeqToSet(reps) : x.report_id = rid}

\* dmarc_reports.report_id is UNIQUE: the insert throws when a row exists.
InsertDmarcReport(reps, rid) ==
  IF GetDmarcReportByReportId(reps, rid) # {}
  THEN [threw |-> TRUE, id |-> 0, reports |-> reps]
  ELSE [threw |-> FALSE, id |-> Len(reps) + 1,
        reports |-> Append(reps, [id |-> Len(reps) + 1, report_id |-> rid,
                                  processed |-> FALSE])]

InsertDmarcRecord(recs, reportId, ip) ==
  Append(recs, [id |-> Len(recs) + 1, report_id |-> reportId, source_ip |-> ip])

GetDmarcRecordsByReportId(recs, reportId) == {x \in SeqToSet(recs) : x.report_id = reportId}

\* Mutant: the selection is ordered newest first.
GetUnprocessedReports_Desc(reps) ==
  LET F[i \in 0..Len(reps)] ==
        IF i = 0 THEN <<>>
        ELSE IF reps[i].processed THEN F[i - 1] ELSE <<reps[i].id>> \o F[i - 1]
  IN F[Len(reps)]

\* SELECT ... WHERE processed = 0 ORDER BY created_at ASC: the ids of the
\* unprocessed reports, oldest first.
GetUnprocessedReports(reps) ==
  LET F[i \in 0..Len(reps)] ==
        IF i = 0 THEN <<>>
        ELSE IF reps[i].processed THEN F[i - 1] ELSE Append(F[i - 1], reps[i].id)
  IN F[Len(reps)]

\* Mutant: the update lacks its WHERE clause and writes (id = ?) to every row.
MarkReportProcessed_AllRows(reps, id) ==
  [i \in 1..Len(reps) |-> [reps[i] EXCEPT !.processed = (reps[i].id = id)]]

\* Mutant: the update matches no row.
MarkReportProcessed_NoRow(reps, id) == reps

MarkReportProcessed(reps, id) ==
  [i \in 1..Len(reps) |-> IF reps[i].id = id THEN [reps[i] EXCEPT !.processed = TRUE] ELSE reps[i]]

GetAiAnalysisByReportId(ans, reportId) == {x \in SeqToSet(ans) : x.report_id = reportId}

\* The columns of ai_analysis that are NOT NULL and filled from the response.
AnalysisColumns == {"compliance_status", "compliance_score", "threats", "threat_level",
                    "trends", "recommendations", "summary"}

\* Mutant: ai_analysis.report_id is not UNIQUE.
InsertAiAnalysis_NoUnique(ans, reportId, level, fields) ==
  IF ~(AnalysisColumns \subseteq fields)
  THEN [threw |-> TRUE, id |-> 0, analyses |-> ans]
  ELSE [threw |-> FALSE, id |-> Len(ans) + 1,
        analyses |-> Append(ans, [id |-> Len(ans) + 1, report_id |-> reportId,
                                  threat_level |-> level])]

\* ai_analysis.report_id is UNIQUE: the insert throws when a row exists; it
\* throws as well when a NOT NULL column gets no value (a field the response
\* lacks is bound as undefined).
InsertAiAnalysis(ans, reportId, level, fields) ==
  IF GetAiAnalysisByReportId(ans, reportId) # {} \/ ~(AnalysisColumns \subseteq fields)
  THEN [threw |-> TRUE, id |-> 0, analyses |-> ans]
  ELSE [threw |-> FALSE, id |-> Len(ans) + 1,
        analyses |-> Append(ans, [id |-> Len(ans) + 1, report_id |-> reportId,
                                  threat_level |-> level])]

GetNotificationByAnalysisId(ns, analysisId) == {x \in SeqToSet(ns) : x.analysis_id = analysisId}

\* notifications.analysis_id carries no UNIQUE constraint: the insert always succeeds.
InsertNotification(ns, analysisId, level, messageId, status, err) ==
  Append(ns, [id |-> Len(ns) + 1, analysis_id |-> analysisId, threat_level |-> level,
              postal_message_id |-> messageId, status |-> status, error_message |-> err])

\* Mutant: only successful messages are logged.
InsertProcessingLog_SuccessOnly(lg, who, m, count, status) ==
  IF status = "SUCCESS"
  THEN lg (+) SetToBag({[run |-> who, email_uid |-> m, attachment_count |-> count,
                         status |-> status]})
  ELSE lg

\* processing_log is never read by the program: it is kept as the bag of its
\* rows; the column run (not in the schema) names the execution that wrote.
InsertProcessingLog(lg, who, m, count, status) ==
  lg (+) SetToBag({[run |-> who, email_uid |-> m, attachment_count |-> count,
                    status |-> status]})

\* ------------------------------------------------------------------------
\* Report parser (dmarc-parser.ts)
\* ------------------------------------------------------------------------

\* The loop over the detail blocks: a block without row is skipped; a block
\* with a row but without identifiers makes rec.identifiers.header_from throw,
\* which leaves the loop with the records inserted so far.
RECURSIVE InsertBlocks(_, _, _)
InsertBlocks(blocks, reportId, recs) ==
  IF blocks = <<>> THEN [threw |-> FALSE, records |-> recs]
  ELSE LET b == Head(blocks) IN
       IF ~b.row THEN InsertBlocks(Tail(blocks), reportId, recs)
       ELSE IF ~b.identifiers THEN [threw |-> TRUE, records |-> recs]
       ELSE InsertBlocks(Tail(blocks), reportId, InsertDmarcRecord(recs, reportId, b.source_ip))

\* parseDmarcXml from insertDmarcReport on.  A document without any record
\* element yields records = [undefined], and rec.row throws on it after the
\* report row was inserted.
InsertDocument(doc, reps, recs) ==
  LET rep == InsertDmarcReport(reps, doc.report_id)
      ins == InsertBlocks(doc.blocks, rep.id, recs)
  IN IF rep.threw
     THEN [status |-> "throw", id |-> 0, reports |-> reps, records |-> recs]
     ELSE IF doc.blocks = <<>>
     THEN [status |-> "throw", id |-> 0, reports |-> rep.reports, records |-> recs]
     ELSE [status |-> IF ins.threw THEN "throw" ELSE "ok",
           id |-> IF ins.threw THEN 0 ELSE rep.id,
           reports |-> rep.reports, records |-> ins.records]

\* Mutant: the lookup of an existing report is left out.
ParseDmarcXml_NoLookup(doc, reps, recs) ==
  IF ~doc.feedback
  THEN [status |-> "null", id |-> 0, reports |-> reps, records |-> recs]
  ELSE InsertDocument(doc, reps, recs)

\* parseDmarcXml: status "null" (no feedback element: returns null), "ok"
\* (returns the id of the new or of the existing report) or "throw".
ParseDmarcXml(doc, reps, recs) ==
  IF ~doc.feedback
  THEN [status |-> "null", id |-> 0, reports |-> reps, records |-> recs]
  ELSE LET existing == GetDmarcReportByReportId(reps, doc.report_id) IN
       IF existing # {}
       THEN [status |-> "ok", id |-> (CHOOSE x \in existing : TRUE).id,
             reports |-> reps, records |-> recs]
       ELSE InsertDocument(doc, reps, recs)

\* ------------------------------------------------------------------------
\* Attachment extraction (email-fetcher.ts)
\* ------------------------------------------------------------------------

Extracted(doc) == [ok |-> TRUE, doc |-> doc]
NoXml == [ok |-> FALSE, doc |-> NoFeedback]

\* Mutant: the first entry of an archive is taken whatever its name.
ExtractXmlFromAttachment_FirstEntry(att) ==
  IF att.suffix = "gz"
  THEN IF att.corrupt THEN NoXml ELSE Extracted(att.entries[1].doc)
  ELSE IF att.suffix = "zip"
  THEN IF att.corrupt \/ att.entries = <<>> THEN NoXml
       ELSE Extracted(att.entries[1].doc)
  ELSE IF att.suffix = "xml" THEN Extracted(att.entries[1].doc)
  ELSE NoXml

\* extractXmlFromAttachment: the decoded document, or null.
ExtractXmlFromAttachment(att) ==
  IF att.suffix = "gz"
  THEN IF att.corrupt THEN NoXml ELSE Extracted(att.entries[1].doc)
  ELSE IF att.suffix = "zip"
  THEN IF att.corrupt \/ att.entries = <<>> THEN NoXml
       ELSE LET xmls == {i \in 1..Len(att.entries) : att.entries[i].xml} IN
            IF xmls # {}
            THEN Extracted(att.entries[CHOOSE i \in xmls : \A j \in xmls : i <= j].doc)
            ELSE Extracted(att.entries[1].doc)
  ELSE IF att.suffix = "xml" THEN Extracted(att.entries[1].doc)
  ELSE NoXml

\* ------------------------------------------------------------------------
\* Reasoning-service responses (claude-analyzer.ts)
\* ------------------------------------------------------------------------

RequiredFields == {"compliance_status", "threat_level", "threats", "recommendations"}

Response(transport, json, fields, level) ==
  [transport |-> transport, json |-> json, fields |-> fields, threat_level |-> level]

\* The fields the prompt asks for.
AllFields == RequiredFields \cup {"compliance_score", "trends", "summary"}

\* What messages.create may produce: a connectivity failure, text that is not
\* JSON, JSON lacking the recommendations list, JSON with the four validated
\* fields only, or a complete answer.
Responses ==
  { Response(TRUE, FALSE, {}, "LOW"),
    Response(FALSE, FALSE, {}, "LOW"),
    Response(FALSE, TRUE, AllFields \ {"recommendations"}, "CRITICAL"),
    Response(FALSE, TRUE, RequiredFields, "HIGH") }
  \cup { Response(FALSE, TRUE, AllFields, l) : l \in Levels }

\* parseClaudeResponse: throws unless the text is JSON with the four fields.
ParseClaudeResponse(resp) ==
  [threw |-> ~(resp.json /\ RequiredFields \subseteq resp.fields),
   threat_level |-> resp.threat_level]

\* ------------------------------------------------------------------------
\* State
\* ------------------------------------------------------------------------

VARIABLES
  env,            \* process.env: which credential groups are configured
  mail,           \* the messages of the mailbox (their attachments), by sequence number
  server,         \* the mail server: "steady" or "failing"
  mbox,           \* per message: "unseen", "flagged" (\Deleted set) or "gone" (expunged)
  reports,        \* table dmarc_reports
  records,        \* table dmarc_records
  analyses,       \* table ai_analysis
  notifications,  \* table notifications
  plog,           \* table processing_log
  cronJob,        \* scheduler.ts: the module holds a cron task (not null)
  timers,         \* node-cron: the number of tasks scheduled and not stopped
  isRunning,      \* scheduler.ts: the single-flight flag
  lastRunTime,    \* scheduler.ts: start time of the last completed run (0 is null)
  lastRunStatus,
  lastRunError,
  run,            \* pipeline executions started so far (the clock of startTime)
  pc,             \* per execution: where runPipeline stands
  job,            \* per execution: the locals of analyzeUnprocessedReports / analyzeReport
  promise,        \* per execution: the promise of fetchAndProcessEmails
  conn,           \* per execution: the Imap connection and its pending command
  tasks,          \* per execution and message: the processEmail task
  dropped,        \* a call of runPipeline was dropped while the run in progress ran
  sends,          \* the analysis ids handed to the Postal send API, in order
  script          \* the process of scripts/test-notification.ts

cfgVars == <<env, mail, server>>
dbVars == <<reports, records, analyses, notifications, plog>>
schedVars == <<cronJob, timers>>
statusVars == <<lastRunTime, lastRunStatus, lastRunError>>
intakeVars == <<promise, conn, tasks>>
vars == <<env, mail, server, mbox, reports, records, analyses, notifications, plog, cronJob,
          timers, isRunning, lastRunTime, lastRunStatus, lastRunError, run, pc, job, promise,
          conn, tasks, dropped, sends, script>>

Runs == 1..MaxRuns
\* The execution of analyzeUnprocessedReports by scripts/run-analyzer.ts, a
\* process of its own; pc and job carry its position beside the scheduler's.
Manual == 0
Execs == Runs \cup {Manual}
Msgs == 1..Len(mail)

\* trace (bookkeeping, not a program variable): what became of each report
\* the loop of this execution has handled, in order.
NoJob == [queue |-> <<>>, cur |-> 0, analysis |-> 0, level |-> "LOW", count |-> 0,
          trace |-> <<>>, dispatch |-> "none", sent |-> FALSE]
Outcome(id, result) == [report |-> id, result |-> result]
NoConn == [st |-> "none", pending |-> <<>>, expunged |-> FALSE, endCalled |-> FALSE]
NoTask == [st |-> "none", i |-> 0, processed |-> 0]
NoPromise == [st |-> "none", err |-> NULL]
NoScript == [pc |-> "idle", analysis |-> 0, level |-> "LOW"]

InitOf(S) ==
  /\ \E sc \in S : mail = sc.mail /\ env = sc.env /\ server = sc.server
  /\ mbox = [m \in Msgs |-> "unseen"]
  /\ reports = <<>> /\ records = <<>> /\ analyses = <<>>
  /\ notifications = <<>> /\ plog = EmptyBag
  /\ cronJob = FALSE /\ timers = 0 /\ isRunning = FALSE
  /\ lastRunTime = 0 /\ lastRunStatus = NULL /\ lastRunError = NULL
  /\ run = 0
  /\ pc = [r \in Execs |-> "none"]
  /\ job = [r \in Execs |-> NoJob]
  /\ promise = [r \in Runs |-> NoPromise]
  /\ conn = [r \in Runs |-> NoConn]
  /\ tasks = [r \in Runs |-> [m \in Msgs |-> NoTask]]
  /\ dropped = FALSE
  /\ sends = <<>>
  /\ script = NoScript

Init == InitOf(Scenarios)
InitDocs == InitOf(ScenariosDocs)
InitScript == InitOf(ScenariosScript)
InitAnalyzer == InitOf(ScenariosAnalyzer)
InitItems == InitOf(ScenariosItems)
InitExtract == InitOf(ScenariosExtract)
InitLive == InitOf(ScenariosLive)

\* ------------------------------------------------------------------------
\* Scheduler (scheduler.ts)
\* ------------------------------------------------------------------------

\* Mutant: resolve() is never called.
Resolve_Lost(p) == p

\* resolve() / reject(e) of a promise: only the first settlement counts.
Resolve(p) == IF p.st = "pending" THEN [st |-> "resolved", err |-> NULL] ELSE p
Reject(p, e) == IF p.st = "pending" THEN [st |-> "rejected", err |-> e] ELSE p

\* The synchronous start of fetchAndProcessEmails for execution r: the
\* configuration check, then new Imap(...), the handlers and imap.connect().
FetchStart(r) ==
  IF ~env.imap
  THEN /\ promise' = [promise EXCEPT ![r] = [st |-> "rejected", err |-> "imap_config"]]
       /\ UNCHANGED conn
  ELSE /\ promise' = [promise EXCEPT ![r] = [st |-> "pending", err |-> NULL]]
       /\ conn' = [conn EXCEPT ![r].st = "connecting"]

\* The body of runPipeline from isRunning = true to the first await.
PipelineBegin ==
  /\ run < MaxRuns
  /\ run' = run + 1
  /\ isRunning' = TRUE
  /\ pc' = [pc EXCEPT ![run + 1] = "intake"]
  /\ FetchStart(run + 1)
  /\ dropped' = FALSE
  /\ UNCHANGED <<cfgVars, mbox, dbVars, statusVars, job, tasks, sends, script>>

\* Mutant: the isRunning check is missing.
RunPipeline_NoGuard == PipelineBegin

\* Mutant: the dropped call records an outcome.
RunPipeline_DropRecords ==
  IF isRunning
  THEN /\ dropped' = TRUE
       /\ lastRunStatus' = "error"
       /\ lastRunError' = "already_running"
       /\ UNCHANGED <<cfgVars, mbox, dbVars, isRunning, lastRunTime, run, pc, job,
                      intakeVars, sends, script>>
  ELSE PipelineBegin

\* runPipeline up to its first await: dropped when a run is in progress.
\* (cronJob is left to the caller.)
RunPipeline ==
  IF isRunning
  THEN /\ dropped' = TRUE
       /\ UNCHANGED <<cfgVars, mbox, dbVars, isRunning, statusVars, run, pc, job,
                      intakeVars, sends, script>>
  ELSE PipelineBegin

\* Mutant: the check for a task already armed is missing.
StartScheduler_NoGuard ==
  /\ env.cron
  /\ cronJob' = TRUE /\ timers' = timers + 1 /\ RunPipeline

\* startScheduler: returns at once when a task is held, throws on an invalid
\* expression; otherwise arms the cron task and runs the pipeline once.
StartScheduler ==
  IF cronJob \/ ~env.cron
  THEN UNCHANGED vars
  ELSE cronJob' = TRUE /\ timers' = timers + 1 /\ RunPipeline

\* Mutant: stopping the scheduler clears the running flag as well.
StopScheduler_Cancels ==
  /\ cronJob
  /\ cronJob' = FALSE
  /\ timers' = timers - 1
  /\ isRunning' = FALSE
  /\ UNCHANGED <<cfgVars, mbox, dbVars, statusVars, run, pc, job, intakeVars,
                 dropped, sends, script>>

\* stopScheduler: disarms the cron task; a run in progress goes on.
StopScheduler ==
  /\ cronJob
  /\ cronJob' = FALSE
  /\ timers' = timers - 1
  /\ UNCHANGED <<cfgVars, mbox, dbVars, isRunning, statusVars, run, pc, job, intakeVars,
                 dropped, sends, script>>

\* A tick of the armed cron task.
CronTick == timers > 0 /\ RunPipeline /\ UNCHANGED schedVars

\* triggerManualRun.
TriggerManualRun == RunPipeline /\ UNCHANGED schedVars

\* Mutant: a successful run leaves the error of an earlier run in place.
Finish_StaleError(r, status, err) ==
  /\ lastRunTime' = r
  /\ lastRunStatus' = status
  /\ lastRunError' = IF status = "success" THEN lastRunError ELSE err
  /\ isRunning' = FALSE
  /\ dropped' = FALSE
  /\ pc' = [pc EXCEPT ![r] = "done"]

\* Mutant: the catch records status and description but not the time.
Finish_NoTime(r, status, err) ==
  /\ lastRunTime' = IF status = "error" THEN lastRunTime ELSE r
  /\ lastRunStatus' = status
  /\ lastRunError' = err
  /\ isRunning' = FALSE
  /\ dropped' = FALSE
  /\ pc' = [pc EXCEPT ![r] = "done"]

\* The end of runPipeline: the outcome fields and, in finally, the flag.
\* (dropped is bookkeeping of the run in progress and is cleared with it.)
Finish(r, status, err) ==
  /\ lastRunTime' = r
  /\ lastRunStatus' = status
  /\ lastRunError' = err
  /\ isRunning' = FALSE
  /\ dropped' = FALSE
  /\ pc' = [pc EXCEPT ![r] = "done"]

\* getSchedulerStatus, as the health route returns it (the schedule string is
\* the configured expression and is left out).
GetSchedulerStatus ==
  [running |-> cronJob,
   isCurrentlyProcessing |-> isRunning,
   lastRunTime |-> IF lastRunTime = 0 THEN NULL ELSE lastRunTime,
   lastRunStatus |-> lastRunStatus,
   lastRunError |-> lastRunError]

\* ------------------------------------------------------------------------
\* Message intake (email-fetcher.ts)
\* ------------------------------------------------------------------------

\* States of a connection in which the library may still emit events.
Live == {"connecting", "opening", "searching", "fetching", "fetch_failed", "joining",
         "expunging", "ending", "leaked"}
\* States in which the inbox is selected and a STORE can take effect.
Selected == {"searching", "fetching", "fetch_failed", "joining", "expunging", "leaked"}

\* The sequence numbers a search for UNSEEN returns, ascending.
Unseen ==
  LET F[i \in 0..Len(mail)] ==
        IF i = 0 THEN <<>>
        ELSE IF mbox[i] # "gone" THEN Append(F[i - 1], i) ELSE F[i - 1]
  IN F[Len(mail)]

\* The outcomes of a command sent to the mail server or of reading a
\* message body from it (TRUE: no error).
Answers == IF server = "failing" THEN BOOLEAN ELSE {TRUE}

\* 'ready': the handler opens the inbox.
ImapReady(r) ==
  /\ conn[r].st = "connecting"
  /\ conn' = [conn EXCEPT ![r].st = "opening"]
  /\ UNCHANGED <<cfgVars, mbox, dbVars, schedVars, isRunning, statusVars, run, pc, job,
                 promise, tasks, dropped, sends, script>>

\* The openBox callback: on error reject (the connection is not ended),
\* otherwise search for unseen messages.
OpenBoxCb(r) ==
  /\ conn[r].st = "opening"
  /\ \E ok \in Answers :
       IF ok
       THEN conn' = [conn EXCEPT ![r].st = "searching"] /\ UNCHANGED promise
       ELSE /\ conn' = [conn EXCEPT ![r].st = "leaked"]
            /\ promise' = [promise EXCEPT ![r] = Reject(@, "openbox_error")]
  /\ UNCHANGED <<cfgVars, mbox, dbVars, schedVars, isRunning, statusVars, run, pc, job,
                 tasks, dropped, sends, script>>

\* The search callback: error -> reject; no result -> imap.end() and
\* resolve() at once; otherwise the fetch is issued.
SearchCb(r) ==
  /\ conn[r].st = "searching"
  /\ \E ok \in Answers :
       IF ~ok
       THEN /\ conn' = [conn EXCEPT ![r].st = "leaked"]
            /\ promise' = [promise EXCEPT ![r] = Reject(@, "search_error")]
       ELSE IF Unseen = <<>>
       THEN /\ conn' = [conn EXCEPT ![r].st = "ending", ![r].endCalled = TRUE]
            /\ promise' = [promise EXCEPT ![r] = Resolve(@)]
       ELSE /\ conn' = [conn EXCEPT ![r].st = "fetching", ![r].pending = Unseen]
            /\ UNCHANGED promise
  /\ UNCHANGED <<cfgVars, mbox, dbVars, schedVars, isRunning, statusVars, run, pc, job,
                 tasks, dropped, sends, script>>

\* fetch 'message' / 'body': processEmail is started for the next message
\* and its promise pushed to processingPromises.
FetchMessage(r) ==
  /\ conn[r].st = "fetching"
  /\ conn[r].pending # <<>>
  /\ conn' = [conn EXCEPT ![r].pending = Tail(@)]
  /\ tasks' = [tasks EXCEPT ![r][Head(conn[r].pending)] =
                  [st |-> "parsing", i |-> 0, processed |-> 0]]
  /\ UNCHANGED <<cfgVars, mbox, dbVars, schedVars, isRunning, statusVars, run, pc, job,
                 promise, dropped, sends, script>>

\* fetch 'error': reject; the library emits 'end' afterwards.
FetchError(r) ==
  /\ server = "failing"
  /\ conn[r].st = "fetching"
  /\ conn' = [conn EXCEPT ![r].st = "fetch_failed"]
  /\ promise' = [promise EXCEPT ![r] = Reject(@, "fetch_error")]
  /\ UNCHANGED <<cfgVars, mbox, dbVars, schedVars, isRunning, statusVars, run, pc, job,
                 tasks, dropped, sends, script>>

\* fetch 'end': the handler starts awaiting Promise.all(processingPromises).
FetchEnd(r) ==
  /\ \/ conn[r].st = "fetching" /\ conn[r].pending = <<>>
     \/ conn[r].st = "fetch_failed"
  /\ conn' = [conn EXCEPT ![r].st = "joining"]
  /\ UNCHANGED <<cfgVars, mbox, dbVars, schedVars, isRunning, statusVars, run, pc, job,
                 promise, tasks, dropped, sends, script>>

\* Every processEmail task this execution started has completed.
AllJoined(r) == \A m \in Msgs : tasks[r][m].st \in {"none", "done"}

\* Mutant: the expunge is issued without awaiting the tasks.
JoinGuard_NoAwait(r) == TRUE

\* What Promise.all(processingPromises) waits for.
JoinGuard(r) == AllJoined(r)

\* Promise.all has resolved: the expunge is issued.
JoinTasks(r) ==
  /\ conn[r].st = "joining"
  /\ JoinGuard(r)
  /\ conn' = [conn EXCEPT ![r].st = "expunging", ![r].expunged = TRUE]
  /\ UNCHANGED <<cfgVars, mbox, dbVars, schedVars, isRunning, statusVars, run, pc, job,
                 promise, tasks, dropped, sends, script>>

\* The expunge callback: an error is only logged; then imap.end().
ExpungeCb(r) ==
  /\ conn[r].st = "expunging"
  /\ \E ok \in Answers :
       mbox' = [m \in Msgs |-> IF ok /\ mbox[m] = "flagged" THEN "gone" ELSE mbox[m]]
  /\ conn' = [conn EXCEPT ![r].st = "ending", ![r].endCalled = TRUE]
  /\ UNCHANGED <<cfgVars, dbVars, schedVars, isRunning, statusVars, run, pc, job,
                 promise, tasks, dropped, sends, script>>

\* 'end': the socket was closed by the server, after the LOGOUT of
\* imap.end() or on the server's own initiative; the handler resolves.
\* (Once the promise has settled an unrequested close changes nothing the
\* program reads, and is left out; so for 'error' below.)
ImapEnd(r) ==
  /\ \/ conn[r].st = "ending"
     \/ server = "failing" /\ conn[r].st \in Live /\ promise[r].st = "pending"
  /\ conn' = [conn EXCEPT ![r].st = "closed"]
  /\ promise' = [promise EXCEPT ![r] = Resolve(@)]
  /\ UNCHANGED <<cfgVars, mbox, dbVars, schedVars, isRunning, statusVars, run, pc, job,
                 tasks, dropped, sends, script>>

\* 'error': a connection-level failure at any time; the handler rejects.
ImapError(r) ==
  /\ server = "failing"
  /\ conn[r].st \in Live
  /\ promise[r].st = "pending"
  /\ conn' = [conn EXCEPT ![r].st = "dead"]
  /\ promise' = [promise EXCEPT ![r] = Reject(@, "imap_error")]
  /\ UNCHANGED <<cfgVars, mbox, dbVars, schedVars, isRunning, statusVars, run, pc, job,
                 tasks, dropped, sends, script>>

\* processEmail after `await simpleParser(stream)`: a parser failure is
\* logged FAILED by the catch; a message without attachments is logged SKIPPED.
TaskParsed(r, m) ==
  /\ tasks[r][m].st = "parsing"
  /\ \E ok \in Answers :
       IF ~ok
       THEN /\ plog' = InsertProcessingLog(plog, r, m, 0, "FAILED")
            /\ tasks' = [tasks EXCEPT ![r][m].st = "done"]
       ELSE IF mail[m] = <<>>
       THEN /\ plog' = InsertProcessingLog(plog, r, m, 0, "SKIPPED")
            /\ tasks' = [tasks EXCEPT ![r][m].st = "done"]
       ELSE /\ tasks' = [tasks EXCEPT ![r][m] = [st |-> "att", i |-> 1, processed |-> 0]]
            /\ UNCHANGED plog
  /\ UNCHANGED <<cfgVars, mbox, reports, records, analyses, notifications, schedVars,
                 isRunning, statusVars, run, pc, job, promise, conn, dropped, sends,
                 script>>

\* `await parseDmarcXml(xmlContent); processedCount++`: the count rises
\* unless the call threw (the return value is not looked at).
Counted(status) == status # "throw"

\* One turn of the attachment loop of processEmail and, after the last
\* attachment, the flagging and the log entry.
TaskAttachment(r, m) ==
  /\ tasks[r][m].st = "att"
  /\ LET t == tasks[r][m]
         x == ExtractXmlFromAttachment(mail[m][t.i])
         res == IF x.ok THEN ParseDmarcXml(x.doc, reports, records)
                ELSE [status |-> "throw", id |-> 0, reports |-> reports, records |-> records]
         cnt == t.processed + (IF x.ok /\ Counted(res.status) THEN 1 ELSE 0)
     IN /\ reports' = res.reports
        /\ records' = res.records
        /\ IF t.i < Len(mail[m])
           THEN /\ tasks' = [tasks EXCEPT ![r][m] = [st |-> "att", i |-> t.i + 1,
                                                       processed |-> cnt]]
                /\ UNCHANGED <<mbox, plog>>
           ELSE /\ tasks' = [tasks EXCEPT ![r][m] = [st |-> "done", i |-> 0,
                                                       processed |-> cnt]]
                /\ IF cnt > 0
                   THEN /\ mbox' = IF conn[r].st \in Selected /\ mbox[m] = "unseen"
                                     THEN [mbox EXCEPT ![m] = "flagged"] ELSE mbox
                        /\ plog' = InsertProcessingLog(plog, r, m, Len(mail[m]), "SUCCESS")
                   ELSE /\ plog' = InsertProcessingLog(plog, r, m, Len(mail[m]), "FAILED")
                        /\ UNCHANGED mbox
  /\ UNCHANGED <<cfgVars, analyses, notifications, schedVars, isRunning, statusVars, run,
                 pc, job, promise, conn, dropped, sends, script>>

\* ------------------------------------------------------------------------
\* Notification stage (notification.ts)
\* ------------------------------------------------------------------------

\* Mutant: only HIGH is notified.
HighLevels_NoCritical == {"HIGH"}

HighLevels == {"HIGH", "CRITICAL"}

\* Mutant: the configuration check is left out.
NotifyDecision_NoConfigCheck(ns, analysisId, level) ==
  IF GetNotificationByAnalysisId(ns, analysisId) # {} THEN "skip"
  ELSE IF level \notin HighLevels THEN "skip"
  ELSE "send"

\* Mutant: the threat-level check is left out.
NotifyDecision_NoLevel(ns, analysisId, level) ==
  IF GetNotificationByAnalysisId(ns, analysisId) # {} THEN "skip"
  ELSE IF ~env.postal THEN "failed"
  ELSE "send"

\* sendThreatNotification up to `await sendPostalEmail`: "skip" (return
\* false), "failed" (configuration incomplete: the catch records FAILED) or
\* "send" (the request to the send API goes out).
NotifyDecision(ns, analysisId, level) ==
  IF GetNotificationByAnalysisId(ns, analysisId) # {} THEN "skip"
  ELSE IF level \notin HighLevels THEN "skip"
  ELSE IF ~env.postal THEN "failed"
  ELSE "send"

\* Mutant: the row written by the catch carries no error description.
InsertFailed_NoMessage(ns, analysisId, level, err, stored) ==
  IF stored THEN InsertNotification(ns, analysisId, level, NULL, "FAILED", NULL) ELSE ns

\* The insert in the catch of sendThreatNotification sits in a try of its
\* own: stored = FALSE is the case that it throws (logged, nothing written).
InsertFailed(ns, analysisId, level, err, stored) ==
  IF stored THEN InsertNotification(ns, analysisId, level, NULL, "FAILED", err) ELSE ns

\* Mutant: a failed dispatch is recorded like a successful one.
NotifyRecord_AlwaysSent(ns, analysisId, level, ok, stored) ==
  InsertNotification(ns, analysisId, level, "msgid", "SENT", NULL)

\* The record written after the send API answered (ok) or failed.
NotifyRecord(ns, analysisId, level, ok, stored) ==
  IF ok THEN InsertNotification(ns, analysisId, level, "msgid", "SENT", NULL)
  ELSE InsertFailed(ns, analysisId, level, "postal_error", stored)

NotifyConfigFailed(ns, analysisId, level, stored) ==
  InsertFailed(ns, analysisId, level, "postal_config", stored)

\* What sendThreatNotification did and returned: dispatch is "none" (no
\* request to the send API and no exception), "config" (configuration
\* incomplete), "ok" or "error" (the answer of the send API).
Returned(dispatch) == [dispatch |-> dispatch, sent |-> dispatch = "ok"]

\* ------------------------------------------------------------------------
\* Assessment stage (claude-analyzer.ts)
\* ------------------------------------------------------------------------

\* Mutant: a report without records is handed to analyzeReport like any other.
LoopAdvance_NoSkip(queue, reps, tr) ==
  IF queue = <<>> THEN [cur |-> 0, queue |-> <<>>, reports |-> reps, trace |-> tr]
  ELSE [cur |-> Head(queue), queue |-> Tail(queue), reports |-> reps, trace |-> tr]

\* The head of the for-loop over the selected reports: reports without
\* records are marked processed and passed over; cur = 0 when none is left.
RECURSIVE LoopAdvance(_, _, _)
LoopAdvance(queue, reps, tr) ==
  IF queue = <<>> THEN [cur |-> 0, queue |-> <<>>, reports |-> reps, trace |-> tr]
  ELSE IF GetDmarcRecordsByReportId(records, Head(queue)) = {}
  THEN LoopAdvance(Tail(queue), MarkReportProcessed(reps, Head(queue)),
                   Append(tr, Outcome(Head(queue), "norecords")))
  ELSE [cur |-> Head(queue), queue |-> Tail(queue), reports |-> reps, trace |-> tr]

\* analyzeUnprocessedReports returns to its caller: runPipeline records
\* success; the script logs and exits.
Return(r) ==
  IF r = Manual
  THEN pc' = [pc EXCEPT ![r] = "done"] /\ UNCHANGED <<isRunning, statusVars, dropped>>
  ELSE Finish(r, "success", NULL)

\* Continue the loop of execution r with the reports left: either the next
\* request goes out, or analyzeUnprocessedReports returns and runPipeline
\* records success.
Advance(r, queue, reps, count, tr) ==
  LET la == LoopAdvance(queue, reps, tr) IN
  /\ reports' = la.reports
  /\ job' = [job EXCEPT ![r] = [queue |-> la.queue, cur |-> la.cur, analysis |-> 0,
                                 level |-> "LOW", count |-> count, trace |-> la.trace,
                                 dispatch |-> "none", sent |-> FALSE]]
  /\ IF la.cur = 0
     THEN Return(r)
     ELSE /\ pc' = [pc EXCEPT ![r] = "request"]
          /\ UNCHANGED <<isRunning, statusVars, dropped>>

\* `await fetchAndProcessEmails()`.
IntakeSettled(r) == promise[r].st \in {"resolved", "rejected"}

\* Mutant: a failed intake is swallowed and the assessment stage runs.
IntakeFailed_Swallow(r) == FALSE

\* The awaited promise rejected: control goes to the catch of runPipeline.
IntakeFailed(r) == promise[r].st = "rejected"

\* runPipeline after the intake: a rejection goes to the catch; otherwise
\* analyzeUnprocessedReports starts (client, selection, loop head).
AfterIntake(r) ==
  /\ pc[r] = "intake"
  /\ IntakeSettled(r)
  /\ IF IntakeFailed(r)
     THEN Finish(r, "error", promise[r].err) /\ UNCHANGED <<reports, job>>
     ELSE IF ~env.anthropic
     THEN Finish(r, "error", "anthropic_key") /\ UNCHANGED <<reports, job>>
     ELSE Advance(r, GetUnprocessedReports(reports), reports, 0, <<>>)
  /\ UNCHANGED <<cfgVars, mbox, records, analyses, notifications, plog, schedVars, run,
                 intakeVars, sends, script>>

\* Mutant: a failed notification keeps the report unassessed and uncounted.
Assessed_UnlessFailed(r, reps, ns, snd, ret) ==
  LET failed == ns # <<>> /\ ns[Len(ns)].status = "FAILED" IN
  /\ reports' = IF failed THEN reps ELSE MarkReportProcessed(reps, job[r].cur)
  /\ notifications' = ns
  /\ sends' = snd
  /\ job' = [job EXCEPT ![r].count = IF failed THEN @ ELSE @ + 1,
                         ![r].trace = Append(@, Outcome(job[r].cur, "ok")),
                         ![r].dispatch = ret.dispatch, ![r].sent = ret.sent]
  /\ pc' = [pc EXCEPT ![r] = "delay"]
  /\ UNCHANGED <<isRunning, statusVars, dropped>>

\* Mutant: the pause is left out after the last selected report.
Assessed_NoTrailingPause(r, reps, ns, snd, ret) ==
  /\ reports' = MarkReportProcessed(reps, job[r].cur)
  /\ notifications' = ns
  /\ sends' = snd
  /\ job' = [job EXCEPT ![r].count = @ + 1,
                         ![r].trace = Append(@, Outcome(job[r].cur, "ok")),
                         ![r].dispatch = ret.dispatch, ![r].sent = ret.sent]
  /\ IF job[r].queue = <<>>
     THEN Return(r)
     ELSE /\ pc' = [pc EXCEPT ![r] = "delay"]
          /\ UNCHANGED <<isRunning, statusVars, dropped>>

\* Mutant: analyzeReport returns without markReportProcessed.
Assessed_NoMark(r, reps, ns, snd, ret) ==
  /\ reports' = reps
  /\ notifications' = ns
  /\ sends' = snd
  /\ job' = [job EXCEPT ![r].count = @ + 1,
                         ![r].trace = Append(@, Outcome(job[r].cur, "ok")),
                         ![r].dispatch = ret.dispatch, ![r].sent = ret.sent]
  /\ pc' = [pc EXCEPT ![r] = "delay"]
  /\ UNCHANGED <<isRunning, statusVars, dropped>>

\* After analyzeReport returned: analyzedCount++ and the rate-limit pause.
Assessed(r, reps, ns, snd, ret) ==
  /\ reports' = MarkReportProcessed(reps, job[r].cur)
  /\ notifications' = ns
  /\ sends' = snd
  /\ job' = [job EXCEPT ![r].count = @ + 1,
                         ![r].trace = Append(@, Outcome(job[r].cur, "ok")),
                         ![r].dispatch = ret.dispatch, ![r].sent = ret.sent]
  /\ pc' = [pc EXCEPT ![r] = "delay"]
  /\ UNCHANGED <<isRunning, statusVars, dropped>>

\* Mutant: the catch of the loop marks the failed report processed.
AnalyzeFailed_Marks(r, failure) ==
  Advance(r, job[r].queue, MarkReportProcessed(reports, job[r].cur), job[r].count,
          Append(job[r].trace, Outcome(job[r].cur, failure)))

\* Mutant: a failure of analyzeReport is rethrown by the loop and ends the
\* run with an error.
AnalyzeFailed_Fatal(r, failure) ==
  /\ Finish(r, "error", failure)
  /\ reports' = reports
  /\ job' = [job EXCEPT ![r].trace = Append(@, Outcome(job[r].cur, failure))]

\* Mutant: analyzedCount is raised for a failed report as well.
AnalyzeFailed_Counted(r, failure) ==
  Advance(r, job[r].queue, reports, job[r].count + 1,
          Append(job[r].trace, Outcome(job[r].cur, failure)))

\* Mutant: the catch of the loop leaves the loop.
AnalyzeFailed_Break(r, failure) ==
  Advance(r, <<>>, reports, job[r].count,
          Append(job[r].trace, Outcome(job[r].cur, failure)))

\* analyzeReport threw: the catch of the loop logs and goes on with the next
\* report; nothing is marked, nothing counted, no pause.
AnalyzeFailed(r, failure) ==
  Advance(r, job[r].queue, reports, job[r].count,
          Append(job[r].trace, Outcome(job[r].cur, failure)))

\* The answer of messages.create for the current report: a failure or an
\* invalid answer is caught by the loop, which goes on; a valid one is
\* stored and, for HIGH/CRITICAL, handed to sendThreatNotification.
RequestDone(r) ==
  /\ pc[r] = "request"
  /\ \E resp \in Responses :
       LET p == ParseClaudeResponse(resp)
           ins == InsertAiAnalysis(analyses, job[r].cur, p.threat_level, resp.fields)
           d == NotifyDecision(notifications, ins.id, p.threat_level)
           failure == IF resp.transport THEN "transport"
                      ELSE IF p.threw THEN "invalid"
                      ELSE IF GetAiAnalysisByReportId(analyses, job[r].cur) # {}
                      THEN "duplicate" ELSE "unstored"
       IN IF resp.transport \/ p.threw \/ ins.threw
          THEN /\ AnalyzeFailed(r, failure)
               /\ UNCHANGED <<analyses, notifications, sends>>
          ELSE /\ analyses' = ins.analyses
               /\ IF p.threat_level \notin HighLevels \/ d = "skip"
                  THEN Assessed(r, reports, notifications, sends, Returned("none"))
                  ELSE IF d = "failed"
                  THEN \E stored \in BOOLEAN :
                         Assessed(r, reports,
                                  NotifyConfigFailed(notifications, ins.id, p.threat_level,
                                                     stored),
                                  sends, Returned("config"))
                  ELSE /\ sends' = Append(sends, ins.id)
                       /\ job' = [job EXCEPT ![r].analysis = ins.id,
                                               ![r].level = p.threat_level]
                       /\ pc' = [pc EXCEPT ![r] = "notify"]
                       /\ UNCHANGED <<reports, notifications, isRunning, statusVars,
                                      dropped>>
  /\ UNCHANGED <<cfgVars, mbox, records, plog, schedVars, run, intakeVars, script>>

\* The send API answered: the notification is recorded, the report marked.
NotifyDone(r) ==
  /\ pc[r] = "notify"
  /\ \E ok \in BOOLEAN, stored \in BOOLEAN :
       Assessed(r, reports,
                NotifyRecord(notifications, job[r].analysis, job[r].level, ok, stored),
                sends, Returned(IF ok THEN "ok" ELSE "error"))
  /\ UNCHANGED <<cfgVars, mbox, records, analyses, plog, schedVars, run, intakeVars,
                 script>>

\* The pause is over: next turn of the loop.
DelayDone(r) ==
  /\ pc[r] = "delay"
  /\ Advance(r, job[r].queue, reports, job[r].count, job[r].trace)
  /\ UNCHANGED <<cfgVars, mbox, records, analyses, notifications, plog, schedVars, run,
                 intakeVars, sends, script>>

\* ------------------------------------------------------------------------
\* scripts/test-notification.ts (a process of its own)
\* ------------------------------------------------------------------------

HighAnalyses == {a \in SeqToSet(analyses) : a.threat_level \in HighLevels}

\* The most recent HIGH/CRITICAL analysis is selected.
ScriptSelect ==
  /\ script.pc = "idle"
  /\ HighAnalyses # {}
  /\ LET a == CHOOSE x \in HighAnalyses : \A y \in HighAnalyses : y.id <= x.id
     IN script' = [pc |-> "selected", analysis |-> a.id, level |-> a.threat_level]
  /\ UNCHANGED <<cfgVars, mbox, dbVars, schedVars, isRunning, statusVars, run, pc, job,
                 intakeVars, dropped, sends>>

\* sendThreatNotification in the script, up to the send request.
ScriptNotify ==
  /\ script.pc = "selected"
  /\ LET d == NotifyDecision(notifications, script.analysis, script.level) IN
       IF d = "send"
       THEN /\ Len(sends) < MaxSends
            /\ sends' = Append(sends, script.analysis)
            /\ script' = [script EXCEPT !.pc = "sending"]
            /\ UNCHANGED notifications
       ELSE /\ \E stored \in BOOLEAN :
                 notifications' = IF d = "failed"
                                  THEN NotifyConfigFailed(notifications, script.analysis,
                                                          script.level, stored)
                                  ELSE notifications
            /\ script' = NoScript
            /\ UNCHANGED sends
  /\ UNCHANGED <<cfgVars, mbox, reports, records, analyses, plog, schedVars, isRunning,
                 statusVars, run, pc, job, intakeVars, dropped>>

\* The send API answered the script.
ScriptSendDone ==
  /\ script.pc = "sending"
  /\ \E ok \in BOOLEAN, stored \in BOOLEAN :
       notifications' = NotifyRecord(notifications, script.analysis, script.level, ok, stored)
  /\ script' = NoScript
  /\ UNCHANGED <<cfgVars, mbox, reports, records, analyses, plog, schedVars, isRunning,
                 statusVars, run, pc, job, intakeVars, dropped, sends>>

\* ------------------------------------------------------------------------
\* Specifications
\* ------------------------------------------------------------------------

Next ==
  \/ StartScheduler
  \/ StopScheduler
  \/ CronTick
  \/ TriggerManualRun
  \/ \E r \in Runs : ImapReady(r)
  \/ \E r \in Runs : OpenBoxCb(r)
  \/ \E r \in Runs : SearchCb(r)
  \/ \E r \in Runs : FetchMessage(r)
  \/ \E r \in Runs : FetchError(r)
  \/ \E r \in Runs : FetchEnd(r)
  \/ \E r \in Runs : JoinTasks(r)
  \/ \E r \in Runs : ExpungeCb(r)
  \/ \E r \in Runs : ImapEnd(r)
  \/ \E r \in Runs : ImapError(r)
  \/ \E r \in Runs, m \in Msgs : TaskParsed(r, m)
  \/ \E r \in Runs, m \in Msgs : TaskAttachment(r, m)
  \/ \E r \in Runs : AfterIntake(r)
  \/ \E r \in Runs : RequestDone(r)
  \/ \E r \in Runs : NotifyDone(r)
  \/ \E r \in Runs : DelayDone(r)

\* The scheduler process alone.
Spec == Init /\ [][Next]_vars

\* The scheduler process on a batch of two messages holding the same
\* document and on messages with several attachments.
SpecDocs == InitDocs /\ [][Next]_vars

\* The scheduler process on a batch with failing items.
SpecItems == InitItems /\ [][Next]_vars

\* The scheduler process on the one-report mailbox and on a message with
\* every kind of attachment.
SpecExtract == InitExtract /\ [][Next]_vars

\* What the event loop and the peers guarantee: a trigger that can start a
\* run does so in the end (the timer keeps ticking, manual calls keep
\* coming); every event the mailbox library has pending is delivered; every
\* processEmail task goes on; the continuation of runPipeline runs once
\* its promise has settled; the reasoning service and the send API answer
\* (or fail) and the pause timer fires.
Fairness ==
  /\ WF_vars(TriggerManualRun)
  /\ WF_vars(\E r \in Runs : \/ ImapReady(r) \/ OpenBoxCb(r) \/ SearchCb(r)
                              \/ FetchMessage(r) \/ FetchEnd(r) \/ JoinTasks(r)
                              \/ ExpungeCb(r) \/ ImapEnd(r))
  /\ WF_vars(\E r \in Runs, m \in Msgs : TaskParsed(r, m) \/ TaskAttachment(r, m))
  /\ WF_vars(\E r \in Runs : AfterIntake(r))
  /\ WF_vars(\E r \in Runs : RequestDone(r) \/ NotifyDone(r) \/ DelayDone(r))

\* The scheduler process under the scheduling of the event loop.
SpecLive == InitLive /\ [][Next]_vars /\ Fairness

\* scripts/run-analyzer.ts: main calls analyzeUnprocessedReports; without
\* the key the call throws and the process exits.
AnalyzerStart ==
  /\ pc[Manual] = "none"
  /\ IF ~env.anthropic
     THEN /\ pc' = [pc EXCEPT ![Manual] = "done"]
          /\ UNCHANGED <<reports, job, isRunning, statusVars, dropped>>
     ELSE Advance(Manual, GetUnprocessedReports(reports), reports, 0, <<>>)
  /\ UNCHANGED <<cfgVars, mbox, records, analyses, notifications, plog, schedVars, run,
                 intakeVars, sends, script>>

NextAnalyzer ==
  \/ Next
  \/ AnalyzerStart
  \/ RequestDone(Manual)
  \/ NotifyDone(Manual)
  \/ DelayDone(Manual)

\* The scheduler process and the manual analyzer script.
SpecAnalyzer == InitAnalyzer /\ [][NextAnalyzer]_vars

NextScript == Next \/ ScriptSelect \/ ScriptNotify \/ ScriptSendDone

\* The scheduler process and the notification test script.
SpecScript == InitScript /\ [][NextScript]_vars

\* ------------------------------------------------------------------------
\* Properties
\* ------------------------------------------------------------------------

\* A property A of every step is stated as the state predicate
\*   ~ENABLED <<Next /\ ~A>>_vars
\* : from the state, no step of the program that changes the state violates
\* A.  It holds in every reachable state exactly when [][A]_vars holds of the
\* behaviours with next-state relation Next (NextAnalyzer and NextScript for
\* the specifications with a second process).

\* Execution r of runPipeline is between its start and its finally.
InProgress(r) == pc[r] \in {"intake", "request", "notify", "delay"}

\* A step in which a call of runPipeline is dropped for the first time
\* during the run in progress.
DroppedStep == dropped' /\ ~dropped

\* C1: at most one pipeline execution is in progress at any time and
\* isRunning is set exactly while one is; an execution starts only when none
\* is in progress; a trigger arriving during a run is dropped, not queued: it
\* starts no execution, neither intake nor assessment, and the scheduler
\* stays running.
C1_SingleFlight ==
  /\   (/\ Cardinality({r \in Runs : InProgress(r)}) <= 1
        /\ (isRunning <=> \E r \in Runs : InProgress(r))
        /\ (dropped => isRunning))
  /\ ~ENABLED <<Next /\ ~(
        /\ (run' # run => ~isRunning /\ ~dropped')
        /\ (DroppedStep => /\ isRunning /\ isRunning'
                           /\ UNCHANGED <<run, pc, job, intakeVars>>))>>_vars

\* A trigger was dropped while the intake of the first execution is under way.
C1_Witness == dropped /\ isRunning /\ pc[1] = "intake" /\ conn[1].st = "fetching"

\* C2: a dropped trigger is a pure no-op: it leaves every table, the
\* mailbox, the running flag and the last-run outcome fields unchanged.
C2_DroppedTriggerNoOp ==
  ~ENABLED <<Next /\ ~(DroppedStep => UNCHANGED <<dbVars, mbox, sends, isRunning, statusVars>>)>>_vars

\* A trigger was dropped during the assessment stage, with data stored.
C2_Witness == dropped /\ pc[1] = "request" /\ Len(reports) > 0 /\ Len(records) > 0

\* The assessment stage of execution r has begun and not yet returned.
AssessmentBegun(r) == pc[r] \in {"request", "notify", "delay"}

\* C3: within an execution the intake has fully completed before the
\* assessment stage begins: every message of the fetch was handed over and
\* its processing finished, the expunge was issued if anything was fetched,
\* and the connection has ended.
C3_IntakeBeforeAssessment ==
  \A r \in Runs :
    AssessmentBegun(r) =>
      /\ conn[r].pending = <<>>
      /\ AllJoined(r)
      /\ ((\E m \in Msgs : tasks[r][m].st # "none") => conn[r].expunged)
      /\ conn[r].st = "closed"

\* C4: a failure of the intake or of the assessment stage aborts the run:
\* the assessment stage never runs after a failed intake, no stage is started
\* a second time within an execution, the outcome of the run is error with
\* the description of the failure and the scheduler is idle again; a run
\* that completes normally records success without a description.
C4_RunOutcome ==
  /\   (\A r \in Runs :
          /\ (AssessmentBegun(r) => promise[r].st = "resolved" /\ env.anthropic)
          /\ (pc[r] = "done" /\ lastRunTime = r =>
                IF promise[r].st = "rejected"
                THEN /\ lastRunStatus = "error" /\ lastRunError = promise[r].err
                     /\ lastRunError # NULL /\ job[r] = NoJob
                ELSE IF ~env.anthropic
                THEN /\ lastRunStatus = "error" /\ lastRunError = "anthropic_key"
                     /\ job[r] = NoJob
                ELSE lastRunStatus = "success" /\ lastRunError = NULL))
  /\ ~ENABLED <<Next /\ ~(
        \A r \in Runs :
          /\ (pc[r] # "done" /\ pc'[r] = "done" =>
                ~isRunning' /\ lastRunTime' = r /\ pc[r] # "none")
          /\ (pc[r] = "done" => pc'[r] = "done")
          /\ (AssessmentBegun(r) => pc'[r] # "intake")
          /\ (conn'[r].st = "connecting" => conn[r].st \in {"none", "connecting"})
          /\ (promise[r].st \in {"resolved", "rejected"} => promise'[r] = promise[r]))>>_vars

\* The fetch failed after a report had been stored: the run ended with that
\* error and the stored report was not assessed.
C4_Witness ==
  /\ pc[1] = "done" /\ ~isRunning
  /\ lastRunStatus = "error" /\ lastRunError = "fetch_error"
  /\ Len(reports) = 1 /\ ~reports[1].processed /\ analyses = <<>>

\* The documents of the scenarios.
AllDocs == {DocX, DocY, DocZ, DocE}

\* C5: ingestion is idempotent: however often a document is ingested, one
\* after the other, in different executions or from the messages of one
\* batch, exactly one report carries its external identifier and no detail
\* record of a report is duplicated; ingesting a document whose report is
\* stored returns the id of that report and changes neither table; reports
\* and detail records once stored keep their identity.
C5_IdempotentIngestion ==
  /\   (/\ \A d \in AllDocs :
             LET existing == GetDmarcReportByReportId(reports, d.report_id)
                 again == ParseDmarcXml(d, reports, records)
             IN /\ Cardinality(existing) <= 1
                /\ (existing # {} =>
                      /\ again.status = "ok"
                      /\ again.id \in {x.id : x \in existing}
                      /\ again.reports = reports
                      /\ again.records = records)
        /\ \A i, j \in 1..Len(records) :
             (records[i].report_id = records[j].report_id
              /\ records[i].source_ip = records[j].source_ip) => i = j)
  /\ ~ENABLED <<Next /\ ~(
        /\ Len(reports') >= Len(reports)
        /\ \A i \in 1..Len(reports) :
             reports'[i].id = reports[i].id /\ reports'[i].report_id = reports[i].report_id
        /\ Len(records') >= Len(records)
        /\ \A i \in 1..Len(records) : records'[i] = records[i])>>_vars

\* The document was ingested by both messages of the batch, and one report
\* with its two records is stored.
C5_Witness ==
  /\ Len(mail) = 2
  /\ tasks[1][1].st = "done" /\ tasks[1][1].processed = 1
  /\ tasks[1][2].st = "done" /\ tasks[1][2].processed = 1
  /\ Len(reports) = 1 /\ Len(records) = 2

\* C6: for every assessment at most one notification row exists, however
\* often and however overlapping sendThreatNotification is invoked for it.
C6_OneNotificationPerAssessment ==
  \A a \in SeqToSet(analyses) :
    Cardinality(GetNotificationByAnalysisId(notifications, a.id)) <= 1

\* C7: at most one alert per assessment is handed to the send API.
C7_OneDispatchPerAssessment ==
  \A a \in SeqToSet(analyses) :
    Cardinality({i \in 1..Len(sends) : sends[i] = a.id}) <= 1

\* C8: a notification is attempted only for HIGH or CRITICAL: every stored
\* notification and every request to the send API belongs to an assessment
\* of such a level, and sendThreatNotification invoked for a stored
\* assessment of a lower level returns not-sent without sending or writing.
C8_OnlyHighSeverity ==
  /\ \A n \in SeqToSet(notifications) :
       \E a \in SeqToSet(analyses) :
         a.id = n.analysis_id /\ a.threat_level \in HighLevels
         /\ n.threat_level = a.threat_level
  /\ \A i \in 1..Len(sends) :
       \E a \in SeqToSet(analyses) : a.id = sends[i] /\ a.threat_level \in HighLevels
  /\ \A a \in SeqToSet(analyses) :
       a.threat_level \notin HighLevels =>
         NotifyDecision(notifications, a.id, a.threat_level) = "skip"

\* A MEDIUM assessment was stored and its report marked, nothing was sent.
C8_Witness ==
  /\ Len(analyses) = 1 /\ analyses[1].threat_level = "MEDIUM"
  /\ reports[analyses[1].report_id].processed
  /\ notifications = <<>> /\ sends = <<>>

\* The step of execution r in which the loop records `result` for its
\* current report.
Records(r, result) ==
  /\ pc[r] = "request"
  /\ Len(job'[r].trace) > Len(job[r].trace)
  /\ job'[r].trace[Len(job[r].trace) + 1] = Outcome(job[r].cur, result)

\* The reports the loop of execution r has still to handle or has handled.
Covered(j) ==
  {j.cur} \cup SeqToSet(j.queue) \cup {j.trace[i].report : i \in 1..Len(j.trace)}

\* C9: when the response for a report fails validation, no assessment row
\* is created, the report stays unassessed, the loop goes on with the other
\* reports of the batch (the execution does not fail), and every later
\* execution of the assessment stage selects the report again as long as it
\* is unassessed.
C9_InvalidResponse ==
  ~ENABLED <<Next /\ ~(
     \A r \in Runs :
       /\ (Records(r, "invalid") =>
             /\ analyses' = analyses
             /\ ~reports'[job[r].cur].processed
             /\ job'[r].count = job[r].count
             /\ SeqToSet(job[r].queue) \subseteq Covered(job'[r])
             /\ IF job'[r].cur = 0
                THEN pc'[r] = "done" /\ lastRunStatus' = "success"
                ELSE pc'[r] = "request" /\ job'[r].cur \in SeqToSet(job[r].queue))
       /\ ((pc[r] = "intake"
            /\ (AssessmentBegun(r)' \/ (pc'[r] = "done" /\ lastRunStatus' = "success"))) =>
             \A i \in 1..Len(reports) :
               ~reports[i].processed => reports[i].id \in Covered(job'[r])))>>_vars

\* The first report got an invalid response, the loop went on and assessed
\* the third, and the next execution sends a request for the first again.
C9_Witness ==
  /\ job[1].trace = <<Outcome(1, "invalid"), Outcome(2, "norecords"), Outcome(3, "ok")>>
  /\ pc[2] = "request" /\ job[2].cur = 1
  /\ analyses # <<>> /\ \A i \in 1..Len(analyses) : analyses[i].report_id # 1

\* The number of reports execution r has recorded as assessed.
OkCount(r) == Cardinality({i \in 1..Len(job[r].trace) : job[r].trace[i].result = "ok"})

\* The response recorded by entry e of a trace passed validation.
PassedValidation(e) == e.result \in {"ok", "unstored", "duplicate"}

\* C10 as stated: after every response that passes validation the
\* assessment is stored and the report marked assessed.
C10_ValidResponseAssessed ==
  \A r \in Runs :
    \A i \in 1..Len(job[r].trace) :
      PassedValidation(job[r].trace[i]) =>
        /\ GetAiAnalysisByReportId(analyses, job[r].trace[i].report) # {}
        /\ reports[job[r].trace[i].report].processed

\* C10 (amended): once the assessment of a report is stored, the report is
\* marked assessed and counted, whatever becomes of the notification: a
\* report with a stored assessment is unassessed only while the send request
\* of its notification is outstanding, the count of an execution is the
\* number of reports it has assessed, and each of these has its assessment
\* and its mark.  (A response that passes validation but lacks the score,
\* the trends or the summary is refused by the store and handled like any
\* other per-report failure.)
C10_AssessedRegardless ==
  /\ \A a \in SeqToSet(analyses) :
       \/ reports[a.report_id].processed
       \/ \E r \in Runs : pc[r] = "notify" /\ job[r].cur = a.report_id
  /\ \A r \in Runs : job[r].count = OkCount(r)
  /\ \A r \in Runs :
       \A i \in 1..Len(job[r].trace) :
         job[r].trace[i].result = "ok" =>
           /\ reports[job[r].trace[i].report].processed
           /\ GetAiAnalysisByReportId(analyses, job[r].trace[i].report) # {}

\* The send API failed: the notification is recorded FAILED, the report is
\* marked and counted, the run completed with success.
C10_Witness ==
  /\ Len(notifications) = 1 /\ notifications[1].status = "FAILED"
  /\ notifications[1].error_message = "postal_error"
  /\ reports[analyses[notifications[1].analysis_id].report_id].processed
  /\ job[1].count = 1 /\ pc[1] = "done" /\ lastRunStatus = "success"

\* C11 as stated: an execution in which a request failed to reach the
\* reasoning service ends with the outcome error.
C11_TransportFatal ==
  \A r \in Runs :
    (/\ pc[r] = "done" /\ lastRunTime = r
     /\ \E i \in 1..Len(job[r].trace) : job[r].trace[i].result = "transport") =>
      lastRunStatus = "error"

\* C11 (amended): only the missing key is fatal: without it no request is
\* made, nothing is assessed and an execution whose intake succeeded ends
\* with the error of the missing key.  A request that fails to reach the
\* service is a failure of that report alone: no assessment is stored, the
\* report stays unassessed and uncounted, the loop goes on with the reports
\* left, and the execution ends with success.
C11_OnlyMissingKeyFatal ==
  /\   (~env.anthropic =>
          /\ analyses = <<>>
          /\ \A r \in Runs :
               /\ ~AssessmentBegun(r)
               /\ job[r] = NoJob
               /\ (pc[r] = "done" /\ lastRunTime = r /\ promise[r].st = "resolved" =>
                     lastRunStatus = "error" /\ lastRunError = "anthropic_key"))
  /\ ~ENABLED <<Next /\ ~(
        \A r \in Runs :
          Records(r, "transport") =>
            /\ analyses' = analyses
            /\ ~reports'[job[r].cur].processed
            /\ job'[r].count = job[r].count
            /\ SeqToSet(job[r].queue) \subseteq Covered(job'[r])
            /\ IF job'[r].cur = 0
               THEN pc'[r] = "done" /\ lastRunStatus' = "success" /\ lastRunError' = NULL
               ELSE pc'[r] = "request" /\ job'[r].cur \in SeqToSet(job[r].queue))>>_vars

\* The request for the first report failed to reach the service, the loop
\* went on and assessed the third, and the run ended with success.
C11_Witness ==
  /\ job[1].trace = <<Outcome(1, "transport"), Outcome(2, "norecords"), Outcome(3, "ok")>>
  /\ pc[1] = "done" /\ lastRunTime = 1 /\ lastRunStatus = "success"
  /\ ~reports[1].processed

\* C12: a selected report without detail records is marked assessed at once:
\* no request is made for it (a request is outstanding only for a report
\* that has records), it gets no assessment and so no notification, and it
\* is not counted.
C12_NoRecordsMarkedOnly ==
  /\ \A r \in Runs :
       \A i \in 1..Len(job[r].trace) :
         LET e == job[r].trace[i] IN
         e.result = "norecords" =>
           /\ reports[e.report].processed
           /\ GetDmarcRecordsByReportId(records, e.report) = {}
           /\ GetAiAnalysisByReportId(analyses, e.report) = {}
           /\ job[r].count <= Len(job[r].trace) - 1
  /\ \A r \in Runs :
       AssessmentBegun(r) => GetDmarcRecordsByReportId(records, job[r].cur) # {}
  /\ \A a \in SeqToSet(analyses) : GetDmarcRecordsByReportId(records, a.report_id) # {}

\* The second of three reports has no records: it was marked without a
\* request, the other two were assessed and counted.
C12_Witness ==
  /\ job[1].trace = <<Outcome(1, "ok"), Outcome(2, "norecords"), Outcome(3, "ok")>>
  /\ job[1].count = 2 /\ pc[1] = "done"
  /\ reports[2].processed /\ Len(analyses) = 2

\* Execution r has logged message m with this status.
HasLog(r, m, status) ==
  \E e \in BagToSet(plog) : e.run = r /\ e.email_uid = m /\ e.status = status

\* The attachment decodes to a report document (one with a feedback element).
ReportPayload(att) ==
  LET x == ExtractXmlFromAttachment(att) IN x.ok /\ x.doc.feedback

\* Message m carries at least one report document.
HasReportPayload(m) == \E i \in 1..Len(mail[m]) : ReportPayload(mail[m][i])

\* C13: a message is marked for removal and logged SUCCESS only if one of
\* its attachments was parsed as a report; a message none of whose
\* attachments is a report is logged FAILED and stays; a message without
\* attachments is logged SKIPPED and stays.
C13_MessageOutcome ==
  \A m \in Msgs :
    /\ (mbox[m] # "unseen" => HasReportPayload(m))
    /\ \A r \in Runs :
         /\ (HasLog(r, m, "SUCCESS") => HasReportPayload(m))
         /\ (HasLog(r, m, "SKIPPED") => mail[m] = <<>> /\ mbox[m] = "unseen")
         /\ (tasks[r][m].st = "done" /\ mail[m] # <<>> /\ ~HasReportPayload(m) =>
               HasLog(r, m, "FAILED"))

\* C14: a message whose only attachment decodes to something that is not a
\* report document (no feedback element) is logged FAILED and not SUCCESS,
\* is not marked for removal, and no report is stored for it.
C14_NoFeedbackFails ==
  \A m \in Msgs :
    (/\ Len(mail[m]) = 1
     /\ ExtractXmlFromAttachment(mail[m][1]).ok
     /\ ~ExtractXmlFromAttachment(mail[m][1]).doc.feedback) =>
      /\ mbox[m] = "unseen"
      /\ \A r \in Runs :
           /\ ~HasLog(r, m, "SUCCESS")
           /\ (tasks[r][m].st = "done" => HasLog(r, m, "FAILED") /\ tasks[r][m].processed = 0)

\* The source addresses of the well-formed blocks of a document, in order.
WellFormedIps(d) ==
  LET ok == SelectSeq(d.blocks, LAMBDA b : b.row /\ b.identifiers)
  IN [i \in 1..Len(ok) |-> ok[i].source_ip]

\* The source addresses of the stored records of a report, in rowid order.
StoredIps(id) ==
  LET own == SelectSeq(records, LAMBDA x : x.report_id = id)
  IN [i \in 1..Len(own) |-> own[i].source_ip]

\* C15: the records stored for a report are exactly the well-formed blocks
\* of its document, in document order: a block without row or without
\* identifiers is left out and keeps no other block from being stored.
C15_RecordsOfWellFormedBlocks ==
  \A i \in 1..Len(reports) :
    \A d \in AllDocs :
      d.report_id = reports[i].report_id => StoredIps(reports[i].id) = WellFormedIps(d)

\* C16: within an intake the expunge is issued only when every processEmail
\* task that was started has completed, and none is started later; it is
\* issued once, and imap.end() is called only after the expunge (or when
\* the search found nothing and no task was started).
C16_CleanupOrdering ==
  /\   (\A r \in Runs :
          /\ (conn[r].expunged => AllJoined(r))
          /\ (conn[r].endCalled =>
                \/ conn[r].expunged
                \/ \A m \in Msgs : tasks[r][m].st = "none"))
  /\ ~ENABLED <<Next /\ ~(
        \A r \in Runs :
          /\ (conn[r].expunged => conn'[r].expunged)
          /\ (conn'[r].st = "expunging" /\ conn[r].st # "expunging" =>
                ~conn[r].expunged /\ conn[r].st = "joining")
          /\ (conn'[r].st = "ending" /\ conn[r].st # "ending" =>
                conn[r].st \in {"expunging", "searching"}))>>_vars

\* Both messages of the batch were processed, then the expunge removed
\* them and the connection was ended.
C16_Witness ==
  /\ Len(mail) = 2
  /\ tasks[1][1].st = "done" /\ tasks[1][2].st = "done"
  /\ conn[1].expunged /\ conn[1].endCalled /\ conn[1].st = "closed"
  /\ mbox = <<"gone", "gone">>

\* C17: every report has at most one assessment, also when a scheduler run
\* and the manual analyzer have selected the same report and both get an
\* answer; a stored assessment is never changed or removed.
C17_OneAssessmentPerReport ==
  /\   (\A i, j \in 1..Len(analyses) :
          analyses[i].report_id = analyses[j].report_id => i = j)
  /\ ~ENABLED <<NextAnalyzer /\ ~(
        /\ Len(analyses') >= Len(analyses)
        /\ \A i \in 1..Len(analyses) : analyses'[i] = analyses[i])>>_vars

\* The scheduler run and the script both sent a request for the report and
\* both got a complete answer: one stored the assessment, the other's
\* insert was refused.
C17_Witness ==
  /\ \E i \in 1..Len(job[1].trace) : job[1].trace[i] = Outcome(1, "ok")
  /\ \E i \in 1..Len(job[Manual].trace) : job[Manual].trace[i] = Outcome(1, "duplicate")
  /\ Len(analyses) = 1

\* C18: the processed flag of a report is false when the report is created
\* and goes only from false to true, in a step of the assessment stage; no
\* step changes anything else of a stored report or a stored record or
\* removes one, and only a step of processEmail (the parser) adds them.
C18_ReportLifecycle ==
  ~ENABLED <<Next /\ ~(
     /\ Len(reports') >= Len(reports) /\ Len(records') >= Len(records)
     /\ \A i \in 1..Len(reports) :
          /\ reports'[i].id = reports[i].id
          /\ reports'[i].report_id = reports[i].report_id
          /\ (reports[i].processed => reports'[i].processed)
     /\ \A i \in (Len(reports) + 1)..Len(reports') : ~reports'[i].processed
     /\ \A i \in 1..Len(records) : records'[i] = records[i]
     /\ ((\E i \in 1..Len(reports) : reports'[i].processed # reports[i].processed) =>
           /\ job' # job
           /\ tasks' = tasks)
     /\ ((Len(reports') > Len(reports) \/ Len(records') > Len(records)) =>
           /\ tasks' # tasks
           /\ job' = job))>>_vars

\* The report was marked by the first run, and the second run has ingested
\* its document again.
C18_Witness ==
  /\ Len(reports) = 1 /\ reports[1].processed
  /\ tasks[2][1].st = "done" /\ tasks[2][1].processed = 1
  /\ Len(records) = 2

\* The reports of execution r in the order the loop takes them: those it is
\* done with, the one whose request is out, those still to come.
Handling(r) ==
  [i \in 1..Len(job[r].trace) |-> job[r].trace[i].report]
    \o (IF pc[r] \in {"request", "notify"} THEN <<job[r].cur>> ELSE <<>>)
    \o job[r].queue

Ascending(seq) == \A i, k \in 1..Len(seq) : i < k => seq[i] < seq[k]

\* C19: in one execution of the assessment stage the selected reports are
\* taken one at a time in insertion order, each at most once: the reports
\* done with, the one being handled and those to come form an ascending
\* sequence of ids; a request for a report goes out only when the execution
\* holds no other request or send, and every report taken before it has its
\* outcome recorded, a successful one being marked processed.
C19_OneAtATimeInOrder ==
  /\   (\A r \in Execs :
         /\ Ascending(Handling(r))
         /\ (pc[r] \in {"request", "notify"} => job[r].cur # 0))
  /\ ~ENABLED <<Next /\ ~(
        \A r \in Execs :
          (pc'[r] = "request" /\ (pc[r] # "request" \/ job'[r].cur # job[r].cur)) =>
            /\ pc[r] \in {"intake", "none", "request", "delay"}
            /\ (pc[r] = "request" =>
                  \E i \in 1..Len(job'[r].trace) :
                    job'[r].trace[i].report = job[r].cur)
            /\ \A i \in 1..Len(job'[r].trace) :
                 /\ job'[r].trace[i].report < job'[r].cur
                 /\ (job'[r].trace[i].result \in {"ok", "norecords"} =>
                       reports'[job'[r].trace[i].report].processed))>>_vars

\* An execution took three reports in turn: the request for the first
\* failed, the second had no records, the third was assessed.
C19_Witness ==
  \E r \in Runs :
    /\ Len(job[r].trace) = 3
    /\ job[r].trace[1].result = "transport"
    /\ job[r].trace[2].result = "norecords"
    /\ job[r].trace[3].result = "ok"

\* The outcomes execution r records in this step.
NewOutcomes(r) ==
  {job'[r].trace[i].result : i \in (Len(job[r].trace) + 1)..Len(job'[r].trace)}

\* C20 as stated: the pause separates successive assessments and is not
\* taken after the last selected report: an execution pauses only while
\* reports are left, and a request that follows an earlier report of the
\* same execution goes out at the end of a pause.
C20_PauseOnlyBetween ==
  /\   (\A r \in Execs : pc[r] = "delay" => job[r].queue # <<>>)
  /\ ~ENABLED <<Next /\ ~(
        \A r \in Execs :
          (pc'[r] = "request" /\ job'[r].cur # job[r].cur /\ job[r].cur # 0) =>
            pc[r] = "delay")>>_vars

\* C20, amended: the pause follows every successful assessment, the last
\* one of the batch included, and nothing else: a step that records "ok"
\* enters the pause whatever is left to do, a step enters the pause only so,
\* and after a failed or passed-over report the loop goes on (or returns)
\* without pausing; the end of the pause is the next turn of the loop.
C20_PauseAfterEverySuccess ==
  ~ENABLED <<Next /\ ~(
     \A r \in Execs :
       /\ ("ok" \in NewOutcomes(r) => pc'[r] = "delay")
       /\ ((pc'[r] = "delay" /\ pc[r] # "delay") =>
             /\ NewOutcomes(r) = {"ok"}
             /\ pc[r] \in {"request", "notify"})
       /\ ((NewOutcomes(r) # {} /\ "ok" \notin NewOutcomes(r)) =>
             pc'[r] \in {"request", "done"})
       /\ ((pc[r] = "delay" /\ pc'[r] # "delay") =>
             pc'[r] \in {"request", "done"}))>>_vars

\* An execution pauses after the last of three reports, nothing left to do.
C20_Witness ==
  \E r \in Runs :
    /\ pc[r] = "delay"
    /\ job[r].queue = <<>>
    /\ Len(job[r].trace) = 3
    /\ job[r].trace[3].result = "ok"

\* The rows this step adds to notifications.
AddedNotifications ==
  SubSeq(notifications', Len(notifications) + 1, Len(notifications'))

\* Execution r comes back from sendThreatNotification in this step.
NotifyReturns(r) ==
  /\ pc[r] \in {"request", "notify"}
  /\ pc'[r] = "delay"
  /\ job'[r].dispatch # "none"

\* The analysis execution r hands to sendThreatNotification in this step.
NotifiedAnalysis(r) == IF pc[r] = "notify" THEN job[r].analysis ELSE Len(analyses')

\* C21: a call of sendThreatNotification that got past the two early returns
\* records its outcome and comes back normally: after a successful dispatch
\* exactly one SENT row with the message id is added and true is returned;
\* after an exception (configuration, dispatch) false is returned and exactly
\* one FAILED row with the error is added, or none when that insert itself
\* throws; in every case the caller goes on: the report is marked processed
\* and counted, the run does not fail.
C21_NotificationOutcome ==
  ~ENABLED <<Next /\ ~(
     \A r \in Execs :
       NotifyReturns(r) =>
         LET a == AddedNotifications
             ret == job'[r]
         IN /\ (ret.dispatch = "ok" =>
                  /\ ret.sent
                  /\ Len(a) = 1
                  /\ a[1].status = "SENT"
                  /\ a[1].postal_message_id # NULL
                  /\ a[1].error_message = NULL)
            /\ (ret.dispatch \in {"error", "config"} =>
                  /\ ~ret.sent
                  /\ Len(a) <= 1
                  /\ (Len(a) = 1 =>
                        /\ a[1].status = "FAILED"
                        /\ a[1].postal_message_id = NULL
                        /\ a[1].error_message # NULL))
            /\ \A i \in 1..Len(a) :
                 /\ a[i].analysis_id = NotifiedAnalysis(r)
                 /\ a[i].threat_level \in HighLevels
            /\ reports'[job[r].cur].processed
            /\ job'[r].count = job[r].count + 1
            /\ lastRunStatus' = lastRunStatus)>>_vars

\* The dispatch failed and the FAILED row could not be written: the call
\* returned false all the same, and the run went on to end in success.
C21_Witness ==
  \E r \in Runs :
    /\ pc[r] = "done"
    /\ lastRunStatus = "success"
    /\ analyses # <<>>
    /\ analyses[1].threat_level \in HighLevels
    /\ notifications = <<>>
    /\ Len(sends) = 1
    /\ job[r].count = 1

\* Execution r has not got to the fetch: it is connecting, opening the inbox
\* or searching.
BeforeFetch(r) == conn[r].st \in {"connecting", "opening", "searching"}

\* Execution r has started no processEmail task, written no log row and
\* issued no expunge.
Untouched(r) ==
  /\ \A m \in Msgs : tasks[r][m].st = "none"
  /\ \A row \in BagToSet(plog) : row.run # r
  /\ ~conn[r].expunged

SetupErrors == {"imap_config", "imap_error", "openbox_error", "search_error"}

\* C22: an execution that leaves the phases connecting, opening the inbox,
\* searching otherwise than by a successful search (missing configuration
\* included) has its promise of fetchAndProcessEmails rejected; it has
\* processed and removed nothing and never will, it does not connect again,
\* and the run goes from the rejected intake straight to the outcome error
\* with that failure, without assessment.
C22_SetupFailureFatal ==
  /\   (\A r \in Runs :
         /\ (BeforeFetch(r) => Untouched(r) /\ promise[r].st = "pending")
         /\ (promise[r].st = "rejected" /\ promise[r].err = "imap_config" =>
               conn[r].st = "none" /\ Untouched(r)))
  /\ ~ENABLED <<Next /\ ~(
        \A r \in Runs :
          /\ ((BeforeFetch(r) /\ ~BeforeFetch(r)' /\ conn'[r].st \notin {"fetching", "ending"}) =>
                /\ promise'[r].st = "rejected"
                /\ promise'[r].err \in SetupErrors
                /\ Untouched(r)')
          /\ ((conn[r].st \in {"leaked", "dead", "closed"} /\ Untouched(r)) =>
                /\ conn'[r] = conn[r]
                /\ Untouched(r)'
                /\ promise'[r] = promise[r])
          /\ ((pc[r] = "intake" /\ pc'[r] # "intake" /\ promise[r].st = "rejected") =>
                /\ pc'[r] = "done"
                /\ lastRunStatus' = "error"
                /\ lastRunError' = promise[r].err
                /\ job'[r] = job[r]
                /\ ~isRunning'))>>_vars

\* The attachments of message m the loop of task (r, m) is through with.
Through(r, m) ==
  IF tasks[r][m].st = "att" THEN 1..(tasks[r][m].i - 1)
  ELSE IF tasks[r][m].st = "done" /\ \E row \in BagToSet(plog) :
            row.run = r /\ row.email_uid = m /\ row.attachment_count > 0
  THEN 1..Len(mail[m])
  ELSE {}

\* Attachment k of message m yields a document with a feedback element.
Parseable(m, k) ==
  LET x == ExtractXmlFromAttachment(mail[m][k]) IN x.ok /\ x.doc.feedback

FailureResults == {"transport", "invalid", "unstored", "duplicate"}

\* C23: a failure on one item does not abort the batch.  Attachments: the
\* loop of processEmail moves to the next attachment after every attachment,
\* and every attachment it is through with that yields a report document has
\* its report stored, whatever happened to the attachments before it.
\* Messages: a step of one processEmail task, failed or not, leaves the other
\* tasks, the connection and the promise of the intake alone, and the expunge
\* is issued once all tasks are done, failed ones included.  Reports: after a
\* failed assessment the loop takes the next report; none of the reports
\* left is dropped and the run does not end in error.
C23_FailureKeepsBatch ==
  /\   (\A r \in Runs, m \in Msgs : \A k \in Through(r, m) :
          Parseable(m, k) =>
            GetDmarcReportByReportId(
              reports, ExtractXmlFromAttachment(mail[m][k]).doc.report_id) # {})
  /\ ~ENABLED <<Next /\ ~(
        \A r \in Runs :
          /\ \A m \in Msgs :
               tasks'[r][m] # tasks[r][m] /\ tasks[r][m].st # "none" =>
                 /\ \A m2 \in Msgs \ {m} : tasks'[r][m2] = tasks[r][m2]
                 /\ promise' = promise
                 /\ conn' = conn
                 /\ (tasks[r][m].st = "att" /\ tasks[r][m].i < Len(mail[m]) =>
                       /\ tasks'[r][m].st = "att"
                       /\ tasks'[r][m].i = tasks[r][m].i + 1)
          /\ (conn[r].st = "joining" /\ AllJoined(r) => ENABLED JoinTasks(r))
          /\ (NewOutcomes(r) \cap FailureResults # {} =>
                /\ \A k \in 1..Len(job[r].queue) :
                     \/ job'[r].cur = job[r].queue[k]
                     \/ \E j \in 1..Len(job'[r].queue) : job'[r].queue[j] = job[r].queue[k]
                     \/ \E j \in 1..Len(job'[r].trace) :
                          job'[r].trace[j] = Outcome(job[r].queue[k], "norecords")
                /\ (job[r].queue # <<>> /\ GetDmarcRecordsByReportId(records, job[r].queue[1]) # {} =>
                      pc'[r] = "request" /\ job'[r].cur = job[r].queue[1])
                /\ (pc'[r] = "done" =>
                      job'[r].queue = <<>> /\ lastRunStatus' = "success")))>>_vars

\* The first message had a corrupt attachment and a document the parser
\* threw on, yet its third attachment was stored and the message flagged and
\* expunged; the second message failed as a whole and is still there.
C23_Witness ==
  /\ Len(mail) = 2
  /\ \E r \in Runs :
       /\ conn[r].expunged
       /\ [run |-> r, email_uid |-> 1, attachment_count |-> 3, status |-> "SUCCESS"]
            \in BagToSet(plog)
       /\ [run |-> r, email_uid |-> 2, attachment_count |-> 0, status |-> "FAILED"]
            \in BagToSet(plog)
  /\ GetDmarcReportByReportId(reports, "W") # {}
  /\ GetDmarcReportByReportId(reports, "E") # {}
  /\ mbox[1] = "gone"
  /\ mbox[2] = "unseen"

\* C24: at most one cron task is armed, and the module holds a task exactly
\* when one is armed (none ever with an invalid expression); the step that
\* arms a task starts from no task, arms exactly one and passes once through
\* runPipeline: a run begins, or the call is dropped when a run is in
\* progress.  While a task is held no step arms another.
C24_StartArmsOnce ==
  /\   (/\ timers <= 1
        /\ (cronJob <=> timers = 1)
        /\ (~env.cron => timers = 0))
  /\ ~ENABLED <<Next /\ ~(
        /\ (timers' > timers =>
              /\ timers = 0 /\ timers' = 1
              /\ ~cronJob /\ cronJob'
              /\ IF isRunning
                 THEN dropped' /\ run' = run /\ pc' = pc /\ isRunning'
                 ELSE /\ run' = run + 1
                      /\ isRunning'
                      /\ pc'[run'] = "intake"
                      /\ pc[run'] = "none")
        /\ (cronJob /\ cronJob' => timers' = timers))>>_vars

\* The scheduler was started with no run in progress: the task is armed and
\* the first run, begun by that call, is connecting.
C24_Witness ==
  /\ cronJob /\ timers = 1
  /\ run = 1 /\ isRunning /\ ~dropped
  /\ pc[1] = "intake"
  /\ conn[1].st = "connecting"

\* The runs of runPipeline that have completed.
Completed == {r \in Runs : pc[r] = "done"}

\* C25: the status is accurate in every state: running says whether a cron
\* task is armed, isCurrentlyProcessing whether a run of runPipeline is in
\* progress, and the last-run fields are null while no run has completed and
\* otherwise those of the run that completed last: its start time, its
\* outcome, and its error when the outcome is error, null when it is success.
\* They are written by the step that completes a run and by no other.
C25_StatusAccurate ==
  /\   (LET st == GetSchedulerStatus IN
        /\ (st.running <=> timers > 0)
        /\ (st.isCurrentlyProcessing <=> \E r \in Runs : InProgress(r))
        /\ IF Completed = {}
           THEN st.lastRunTime = NULL /\ st.lastRunStatus = NULL /\ st.lastRunError = NULL
           ELSE /\ st.lastRunTime = CHOOSE r \in Completed : \A q \in Completed : q <= r
                /\ st.lastRunStatus \in {"success", "error"}
                /\ (st.lastRunStatus = "success" <=> st.lastRunError = NULL))
  /\ ~ENABLED <<Next /\ ~(
        \A r \in Runs :
          IF pc[r] # "done" /\ pc'[r] = "done"
          THEN /\ lastRunTime' = r
               /\ (lastRunStatus' = "error" =>
                     \/ promise[r].st = "rejected" /\ lastRunError' = promise[r].err
                     \/ promise[r].st = "resolved" /\ ~env.anthropic
                          /\ lastRunError' = "anthropic_key")
               /\ (lastRunStatus' = "success" =>
                     promise[r].st = "resolved" /\ env.anthropic)
          ELSE (\A q \in Runs : pc'[q] = "done" => pc[q] = "done") =>
                 UNCHANGED statusVars)>>_vars

\* The first run failed and the second succeeded; the scheduler has been
\* stopped: the status shows the second run, no error, nothing armed.
C25_Witness ==
  /\ Completed = {1, 2}
  /\ GetSchedulerStatus.lastRunTime = 2
  /\ GetSchedulerStatus.lastRunStatus = "success"
  /\ GetSchedulerStatus.lastRunError = NULL
  /\ ~GetSchedulerStatus.running
  /\ ~GetSchedulerStatus.isCurrentlyProcessing
  /\ promise[1].st = "rejected"
  /\ analyses # <<>>

\* Execution r enters analyzeUnprocessedReports in this step and gets past
\* the client.
StageStarts(r) ==
  /\ pc[r] \in {"intake", "none"}
  /\ pc'[r] \in {"request", "done"}
  /\ env.anthropic
  /\ (r \in Runs => promise[r].st = "resolved")

\* C26: the stage selects, at its start, exactly the reports not yet
\* processed; its count rises by one in the steps, and only in the steps,
\* in which the execution marks a report processed for which an analysis was
\* stored in this execution; failed reports and reports without records
\* leave it alone, so the count returned is the number of reports assessed.
C26_CountIsAssessed ==
  /\   (\A r \in Runs : job[r].count = OkCount(r))
  /\ ~ENABLED <<Next /\ ~(
        \A r \in Runs :
          /\ (StageStarts(r) =>
                /\ Handling(r)' = GetUnprocessedReports(reports)
                /\ job'[r].count = 0)
          /\ (job'[r].count # job[r].count =>
                /\ job'[r].count = job[r].count + 1
                /\ ~reports[job[r].cur].processed
                /\ reports'[job[r].cur].processed
                /\ GetDmarcRecordsByReportId(records, job[r].cur) # {}
                /\ GetAiAnalysisByReportId(analyses', job[r].cur) # {}
                /\ (pc[r] = "notify" \/ Len(analyses') = Len(analyses) + 1))
          /\ \A i \in 1..Len(reports) :
               (/\ ~reports[i].processed /\ reports'[i].processed
                /\ job'[r] # job[r]
                /\ job'[r].count = job[r].count) =>
                 GetDmarcRecordsByReportId(records, reports[i].id) = {})>>_vars

\* A run over three selected reports has returned the count 1: one answer
\* was invalid, one report had no records, one report was assessed.
C26_Witness ==
  \E r \in Runs :
    /\ pc[r] = "done"
    /\ lastRunStatus = "success"
    /\ job[r].count = 1
    /\ Len(job[r].trace) = 3
    /\ job[r].trace[1].result = "invalid"
    /\ job[r].trace[2].result = "norecords"
    /\ job[r].trace[3].result = "ok"

\* C27: the message with one .gz report of three records.  Once its task is
\* done the store holds one report and its three records, the report not
\* processed as long as no assessment of it has been stored; and when an
\* execution has stored a CRITICAL assessment and come back from a
\* notification that the send API did not fail, there is exactly one
\* assessment row, exactly one notification row, SENT, for it, and the
\* report is processed.
C27_EndToEnd ==
  \A r \in Runs :
    /\ (tasks[r][1].st = "done" /\ tasks[r][1].processed = 1 =>
          /\ Len(reports) = 1
          /\ reports[1].report_id = "T"
          /\ Cardinality(GetDmarcRecordsByReportId(records, reports[1].id)) = 3
          /\ Len(records) = 3
          /\ (analyses = <<>> => ~reports[1].processed))
    /\ (/\ pc[r] = "delay"
         /\ analyses # <<>>
         /\ analyses[Len(analyses)].threat_level = "CRITICAL"
         /\ job[r].dispatch # "error"
         =>
          /\ Len(analyses) = 1
          /\ analyses[1].report_id = reports[1].id
          /\ Len(notifications) = 1
          /\ notifications[1].status = "SENT"
          /\ notifications[1].analysis_id = analyses[1].id
          /\ notifications[1].threat_level = "CRITICAL"
          /\ Len(sends) = 1
          /\ reports[1].processed)

\* The scenario has run: a CRITICAL assessment, its SENT notification, the
\* report processed, the message expunged.
C27_Witness ==
  /\ pc[1] = "done" /\ lastRunStatus = "success"
  /\ Len(records) = 3
  /\ Len(analyses) = 1 /\ analyses[1].threat_level = "CRITICAL"
  /\ Len(notifications) = 1 /\ notifications[1].status = "SENT"
  /\ reports[1].processed
  /\ mbox[1] = "gone"

\* The rows of processing_log written by task (r, m).
LogRows(r, m) == {row \in BagToSet(plog) : row.run = r /\ row.email_uid = m}

\* C28: an execution has written exactly one row of processing_log for each
\* message whose processEmail task is done and none for any other message;
\* the status of a row is SKIPPED, SUCCESS or FAILED, and rows are never
\* changed or removed.
C28_OneLogRowPerMessage ==
  /\   (/\ \A r \in Runs, m \in Msgs :
             IF tasks[r][m].st = "done"
             THEN /\ Cardinality(LogRows(r, m)) = 1
                  /\ \A row \in LogRows(r, m) : CopiesIn(row, plog) = 1
             ELSE LogRows(r, m) = {}
        /\ \A row \in BagToSet(plog) :
             /\ row.status \in {"SKIPPED", "SUCCESS", "FAILED"}
             /\ row.run \in Runs /\ row.email_uid \in Msgs)
  /\ ~ENABLED <<Next /\ ~(\A row \in BagToSet(plog) : CopiesIn(row, plog') = CopiesIn(row, plog))>>_vars

\* The first run has fetched the two messages of the mailbox and the second
\* run the one that was left: three rows, one per run and fetched message,
\* a SUCCESS and a SKIPPED among them.
C28_Witness ==
  /\ Len(mail) = 2
  /\ tasks[1][1].st = "done" /\ tasks[1][2].st = "done"
  /\ tasks[2][1].st = "none" /\ tasks[2][2].st = "done"
  /\ BagCardinality(plog) = 3
  /\ \E row \in BagToSet(plog) : row.status = "SUCCESS"
  /\ \E row \in BagToSet(plog) : row.status = "SKIPPED"

\* C29: with the send-API configuration incomplete no request ever goes to
\* the send API; the step that stores a HIGH or CRITICAL analysis calls
\* sendThreatNotification, which fails on the configuration: it returns
\* false and adds exactly one FAILED row carrying the configuration error
\* for that analysis (none when the insert of that row itself throws); no
\* analysis ever has more than one row.
C29_MissingSendConfiguration ==
  /\   (~env.postal =>
          /\ sends = <<>>
          /\ \A r \in Execs : pc[r] # "notify" /\ ~job[r].sent
          /\ \A i \in 1..Len(notifications) :
               /\ notifications[i].status = "FAILED"
               /\ notifications[i].error_message = "postal_config"
               /\ notifications[i].postal_message_id = NULL
               /\ Cardinality(GetNotificationByAnalysisId(
                                notifications, notifications[i].analysis_id)) = 1)
  /\ ~ENABLED <<Next /\ ~(
        ~env.postal =>
          \A r \in Execs :
            /\ ((/\ pc[r] = "request"
                  /\ Len(analyses') = Len(analyses) + 1
                  /\ analyses'[Len(analyses')].threat_level \in HighLevels) =>
                  job'[r].dispatch = "config")
            /\ (NotifyReturns(r) =>
                  /\ job'[r].dispatch = "config"
                  /\ Len(AddedNotifications) <= 1
                  /\ \A i \in 1..Len(AddedNotifications) :
                       /\ AddedNotifications[i].analysis_id = Len(analyses')
                       /\ AddedNotifications[i].threat_level =
                            analyses'[Len(analyses')].threat_level))>>_vars

\* Without the send-API configuration a CRITICAL or HIGH assessment was
\* stored: one FAILED row with the configuration error, nothing sent.
C29_Witness ==
  /\ ~env.postal
  /\ pc[1] = "done"
  /\ Len(analyses) = 1 /\ analyses[1].threat_level \in HighLevels
  /\ Len(notifications) = 1
  /\ notifications[1].status = "FAILED"
  /\ notifications[1].error_message = "postal_config"
  /\ sends = <<>>
  /\ reports[1].processed

\* The attachment the loop of task (r, m) handles in this step.
Handled(r, m) == mail[m][tasks[r][m].i]

\* The position in an archive of the entry the stated rule selects.
RuleEntry(att) ==
  IF \E i \in 1..Len(att.entries) : att.entries[i].xml
  THEN CHOOSE i \in 1..Len(att.entries) :
         /\ att.entries[i].xml
         /\ \A j \in 1..(i - 1) : ~att.entries[j].xml
  ELSE 1

\* The store takes the document doc in this step: its report is there
\* afterwards, and a report added by the step is that of doc.
Takes(doc) ==
  /\ GetDmarcReportByReportId(reports', doc.report_id) # {}
  /\ Len(reports') <= Len(reports) + 1
  /\ (Len(reports') > Len(reports) => reports'[Len(reports')].report_id = doc.report_id)

\* C30: what a turn of the attachment loop hands to the parser is chosen by
\* the suffix of the filename: the decompressed stream of an intact .gz, the
\* content of an .xml, of an intact .zip the first entry named *.xml and
\* without such an entry the first entry; an empty archive and every other
\* suffix yield nothing, and then the parser is not called: nothing is
\* stored and the message's count of parsed documents stays.
C30_ExtractionBySuffix ==
  ~ENABLED <<Next /\ ~(
     \A r \in Runs, m \in Msgs :
       (tasks[r][m].st = "att" /\ tasks'[r][m] # tasks[r][m]) =>
         LET att == Handled(r, m) IN
         /\ ((att.suffix \in {"gz", "xml"} /\ ~att.corrupt) => Takes(att.entries[1].doc))
         /\ ((att.suffix = "zip" /\ ~att.corrupt /\ att.entries # <<>>) =>
               Takes(att.entries[RuleEntry(att)].doc))
         /\ ((att.suffix \notin {"gz", "xml", "zip"}
                \/ (att.suffix = "zip" /\ att.entries = <<>>)) =>
               /\ reports' = reports
               /\ records' = records
               /\ tasks'[r][m].processed = tasks[r][m].processed))>>_vars

\* The message with every kind of attachment has been gone through: the
\* reports of the .gz, of the *.xml entry of the first archive, of the first
\* entry of the second archive and of the .xml are stored, in that order,
\* and no other.
C30_Witness ==
  /\ Len(mail[1]) = 7
  /\ tasks[1][1].st = "done"
  /\ Len(reports) = 4
  /\ reports[1].report_id = "X"
  /\ reports[2].report_id = "Y"
  /\ reports[3].report_id = "Z"
  /\ reports[4].report_id = "W"

\* Execution r has ended with an intake error and the scheduler is idle.
EndedInError(r) ==
  /\ pc[r] = "done" /\ ~isRunning
  /\ promise[r].st = "rejected" /\ promise[r].err \in {"fetch_error", "imap_error"}

\* C31: whenever the scheduler is idle after a run has ended, no
\* message-processing task started by that run is still in flight: after an
\* intake that ended in error (fetch error or connection error) no task of
\* that run takes a step, so no report, detail record or intake log entry
\* is written on behalf of that run.
C31_NoWorkAfterRunEnded ==
  /\   (\A r \in Runs : EndedInError(r) => AllJoined(r))
  /\ ~ENABLED <<Next /\ ~(
        \A r \in Runs :
          EndedInError(r) =>
            /\ tasks'[r] = tasks[r]
            /\ \A row \in BagToSet(plog') : row.run = r => BagIn(row, plog))>>_vars

\* The number of blocks of a document that carry a row.
RowBlocks(d) == Len(SelectSeq(d.blocks, LAMBDA b : b.row))

\* C32: ingestion of one document is all-or-nothing: when parseDmarcXml
\* raises for a document, no report with the identifier of that document
\* remains stored, so a stored report never lacks a detail record of its
\* document and a later ingestion is never short-circuited as the duplicate
\* of an incomplete report.
C32_AllOrNothing ==
  /\   (\A i \in 1..Len(reports) :
          \A d \in AllDocs :
            d.report_id = reports[i].report_id =>
              Len(StoredIps(reports[i].id)) = RowBlocks(d))
  /\ ~ENABLED <<Next /\ ~(
        \A r \in Runs, m \in Msgs :
          (tasks[r][m].st = "att" /\ tasks'[r][m] # tasks[r][m]) =>
            LET x == ExtractXmlFromAttachment(Handled(r, m))
                res == ParseDmarcXml(x.doc, reports, records)
            IN (x.ok /\ res.status = "throw") =>
                 GetDmarcReportByReportId(reports', x.doc.report_id) = {})>>_vars

\* The step in which the assessment stage of execution r returns to its
\* caller (with the count of analyzed reports).
StageReturns(r) ==
  /\ pc[r] # "done" /\ pc'[r] = "done"
  /\ env.anthropic
  /\ r \in Runs => lastRunStatus' = "success"

\* The tables agree: a processed report that has records has exactly one
\* analysis, and a report that has an analysis is processed.
AssessmentsAgree(reps, recs, ans) ==
  \A i \in 1..Len(reps) :
    LET own == GetAiAnalysisByReportId(ans, reps[i].id) IN
    /\ (reps[i].processed /\ GetDmarcRecordsByReportId(recs, reps[i].id) # {}) =>
         Cardinality(own) = 1
    /\ own # {} => reps[i].processed

InHandElsewhere(r, id) ==
  \E e \in Execs \ {r} : pc'[e] = "notify" /\ job'[e].cur = id

Accepted(id) ==
  \/ \E r \in Execs : pc[r] = "notify" /\ job[r].analysis = id /\ job'[r].dispatch = "ok"
  \/ script.pc = "sending" /\ script.analysis = id

\* C34: every stored notification is well-formed and final: SENT comes with
\* an external message identifier and no error description, FAILED with an
\* error description and no message identifier; a row is never changed or
\* removed after its insert; and a SENT row is inserted only when the send
\* API has accepted a message for that analysis.
C34_NotificationsWellFormed ==
  /\   (\A i \in 1..Len(notifications) :
          LET n == notifications[i] IN
          /\ n.status \in {"SENT", "FAILED"}
          /\ n.status = "SENT" =>
               /\ n.postal_message_id # NULL /\ n.error_message = NULL
               /\ \E k \in 1..Len(sends) : sends[k] = n.analysis_id
          /\ n.status = "FAILED" =>
               n.postal_message_id = NULL /\ n.error_message # NULL)
  /\ ~ENABLED <<NextScript /\ ~(
        /\ Len(notifications') >= Len(notifications)
        /\ \A i \in 1..Len(notifications) : notifications'[i] = notifications[i]
        /\ \A i \in (Len(notifications) + 1)..Len(notifications') :
             notifications'[i].status = "SENT" => Accepted(notifications'[i].analysis_id))>>_vars

\* A SENT row and a FAILED row are stored.
C34_Witness ==
  /\ \E i \in 1..Len(notifications) : notifications[i].status = "SENT"
  /\ \E i \in 1..Len(notifications) :
       notifications[i].status = "FAILED" /\ notifications[i].error_message = "postal_error"

\* C35: the last-run outcome fields are written only when a run completes:
\* they are all null until the first run has completed and unchanged while
\* a run is in progress; success comes without an error description, error
\* with one, and lastRunTime is set exactly when lastRunStatus is.
C35_OutcomeFields ==
  /\   (/\ Completed = {} =>
             lastRunTime = 0 /\ lastRunStatus = NULL /\ lastRunError = NULL
        /\ lastRunStatus \in {NULL, "success", "error"}
        /\ lastRunStatus = "success" => lastRunError = NULL
        /\ lastRunStatus = "error" => lastRunError # NULL
        /\ lastRunStatus = NULL => lastRunError = NULL
        /\ (lastRunTime # 0 <=> lastRunStatus # NULL))
  /\ ~ENABLED <<Next /\ ~(
        /\ statusVars' # statusVars =>
             \E r \in Runs : InProgress(r) /\ pc'[r] = "done" /\ ~isRunning'
        /\ (isRunning /\ isRunning') => UNCHANGED statusVars)>>_vars

\* The first run ended in error; the second is in progress and the fields
\* still tell of the first.
C35_Witness ==
  /\ pc[1] = "done" /\ InProgress(2) /\ isRunning
  /\ lastRunTime = 1 /\ lastRunStatus = "error" /\ lastRunError = "fetch_error"

\* The connection of execution r got as far as 'ready' and was not torn
\* down by a connection-level failure.
Connected(r) == conn[r].st \notin {"none", "connecting", "dead"}

\* C36: every intake that reached the connected state ends the mailbox
\* connection on every exit path: once fetchAndProcessEmails has settled,
\* after a failure to open the inbox, to search or to fetch as well as
\* after the no-unseen-messages path, imap.end() has been called or the
\* connection is closed.
C36_ConnectionEnded ==
  \A r \in Runs :
    (IntakeSettled(r) /\ Connected(r)) => (conn[r].endCalled \/ conn[r].st = "closed")

\* C37: stopScheduler disarms the timer without cancelling a run in
\* progress: the step changes nothing but the task, the running flag stays
\* set until the run in progress completes, and a startScheduler issued
\* while that run is in progress arms a new timer while its immediate run
\* is dropped; at most one run is in progress across any sequence of
\* start, stop, timer tick and manual trigger.
C37_StopKeepsRun ==
  /\   (Cardinality({r \in Runs : InProgress(r)}) <= 1)
  /\ ~ENABLED <<Next /\ ~(
        /\ (cronJob /\ ~cronJob') =>
             /\ timers' = timers - 1
             /\ UNCHANGED <<isRunning, run, pc, job, intakeVars, dbVars, mbox, sends,
                            statusVars>>
        /\ (isRunning /\ ~isRunning') =>
             \E r \in Runs : InProgress(r) /\ pc'[r] = "done"
        /\ (isRunning /\ ~cronJob /\ cronJob') =>
             /\ timers' = timers + 1
             /\ dropped' /\ isRunning'
             /\ UNCHANGED <<run, pc, job, intakeVars, dbVars, mbox, sends, statusVars>>)>>_vars

\* A timer is armed and a call of runPipeline was dropped during the
\* assessment stage of the first run, which goes on.
C37_Witness ==
  /\ cronJob /\ timers = 1
  /\ isRunning /\ dropped /\ run = 1
  /\ pc[1] = "notify"

\* No intake has failed so far: no promise of fetchAndProcessEmails was
\* rejected and no connection was closed before imap.end() was called.
IntakeGood ==
  \A r \in Runs :
    /\ promise[r].st # "rejected"
    /\ conn[r].st = "closed" => conn[r].endCalled

\* Every answer of the reasoning service so far passed the validation of
\* parseClaudeResponse.
SchemaValid ==
  \A r \in Runs : \A k \in 1..Len(job[r].trace) :
    job[r].trace[k].result \notin {"transport", "invalid"}

\* Every answer so far carried every field the store requires.
Complete ==
  \A r \in Runs : \A k \in 1..Len(job[r].trace) :
    job[r].trace[k].result \notin {"transport", "invalid", "unstored"}

AllAssessed == \A i \in 1..Len(reports) : reports[i].processed

C39_RunsTerminate ==
  /\ []<>(\A r \in Runs : promise[r].st # "pending")
  /\ []<>(~isRunning /\ \A r \in Runs : ~InProgress(r))
  /\ [](\A r \in Runs : \A i, k \in 1..Len(job[r].trace) :
          job[r].trace[i].report = job[r].trace[k].report => i = k)

\* Both runs have terminated and the scheduler is idle: the first by the
\* rejection of its intake, the second after assessing the report.
C39_Witness ==
  /\ pc[1] = "done" /\ pc[2] = "done" /\ ~isRunning
  /\ promise[1].st = "rejected" /\ promise[2].st = "resolved"
  /\ job[2].count = 1 /\ Len(job[2].trace) = 2
  /\ lastRunTime = 2 /\ lastRunStatus = "success"
====
